---- MODULE Spec2Model ----
(***************************************************************************)
(* Verification model of the lead-management back end: the chat handler    *)
(* with its automatic lead capture, the authorization gate of the edge     *)
(* functions, the row-level policies of the store, the lead scoring        *)
(* function, the dashboard's session grouping and its CSV export.          *)
(***************************************************************************)
EXTENDS Integers, Sequences, FiniteSets, TLC

VARIABLES
    \* ---- chat handler / lead capture (chat edge function) ----
    leads,        \* rows of public.leads
    started,      \* number of chat requests received so far
    pc,           \* position of each handler invocation
    req,          \* the signals detected in the request of each invocation
    existingLead, \* the row each invocation read (existingLead), or NoLead
    outcome,      \* what the capture step of each invocation did
    sent,         \* fire-and-forget notifications each invocation issued
    failed,       \* those of them whose request failed (the .catch ran)
    lookupsOk,    \* whether every lookup of the invocation was answered
    forwarded,    \* whether the invocation called the AI responder
    aiResult,     \* what the AI gateway answered to the invocation
    response,     \* the HTTP response of each invocation
    \* ---- scrape / enrich / webhook edge functions ----
    fnReq,        \* the request being served: function, headers, body
    fnPc,         \* position of the handler serving it
    fnUser,       \* the user id getClaims returned (claims.sub)
    fnAuth,       \* the result of verifyAuthorization
    fnEffects,    \* collaborator calls and row accesses made for the request
    fnStatus,     \* HTTP status of the response
    fnSuccess,    \* the success field of the response body
    fnOutcomes,   \* what the scraping service and the AI gateway did
    \* ---- row-level policies ----
    tables,       \* per table: number of rows, and how many were rewritten
    lastOp,       \* the last statement an API caller ran, and its effect
    \* ---- lead scoring ----
    scoreInput,   \* the feature record handed to calculateLeadScore
    scored,       \* its score and qualification status, once computed
    badge,        \* a stored score and the status the score badge shows
    \* ---- conversations tab ----
    chat_interactions, \* rows of public.chat_interactions
    interactions, \* the rows the last fetch returned, newest first
    groupedSessions, \* the useMemo result over `interactions`
    \* ---- CSV export of the dashboard ----
    leadRows,     \* the leads the tab holds (the query result)
    csv,          \* the tab that exported last, and the text of its file
    \* ---- the chat client reading the streamed response ----
    stream,       \* the tokens of the response body of the chat function
    delivered,    \* how many of them the reader has handed over
    buffer,       \* the decoded text not yet split into lines
    assistantContent, \* the assistant text assembled so far
    streamPc,     \* idle, reading or done
    \* ---- AuthProvider of the dashboard ----
    mounted,      \* the effect of AuthProvider ran and its cleanup has not
    isLoading,    \* useState(true)
    isAdmin,      \* useState(false)
    authSession,  \* the id of the user of the session, or null
    user,         \* session?.user ?? null
    initPc,       \* where initializeAuth stands
    roleCheck,    \* the role check initializeAuth awaits: user id and deadline
    safety,       \* the safety timer is set
    roleChecks,   \* the role checks the listener started, still pending
    now,          \* seconds since the effect ran
    enrichRun,    \* the last run of the enrich function against the store
    leadTable,    \* rows of public.leads as the leads tab sees them
    leadsData,    \* the data of the tab's ['leads'] query
    leadsStale,   \* the query was invalidated and has not refetched yet
    sourceFilter, \* useState('all')
    selectedLeads, \* useState(new Set())
    mutation      \* the bulk mutation in flight, if any

captureVars == <<leads, started, pc, req, existingLead, outcome, sent, failed,
                 lookupsOk, forwarded, aiResult, response>>

fnVars == <<fnReq, fnPc, fnUser, fnAuth, fnEffects, fnStatus, fnSuccess,
            fnOutcomes>>

rlsVars == <<tables, lastOp>>

scoreVars == <<scoreInput, scored, badge>>

groupVars == <<chat_interactions, interactions, groupedSessions>>

csvVars == <<leadRows, csv>>

streamVars == <<stream, delivered, buffer, assistantContent, streamPc>>

authVars == <<mounted, isLoading, isAdmin, authSession, user, initPc,
              roleCheck, safety, roleChecks, now>>

enrichVars == <<enrichRun>>

tabVars == <<leadTable, leadsData, leadsStale, sourceFilter, selectedLeads,
            mutation>>

vars == <<captureVars, fnVars, rlsVars, scoreVars, groupVars, csvVars,
          streamVars, authVars, enrichVars, tabVars>>

notCapture == <<fnVars, rlsVars, scoreVars, groupVars, csvVars, streamVars,
                authVars, enrichVars, tabVars>>

notFn == <<captureVars, rlsVars, scoreVars, groupVars, csvVars, streamVars,
           authVars, enrichVars, tabVars>>

notRls == <<captureVars, fnVars, scoreVars, groupVars, csvVars, streamVars,
            authVars, enrichVars, tabVars>>

notScore == <<captureVars, fnVars, rlsVars, groupVars, csvVars, streamVars,
              authVars, enrichVars, tabVars>>

notGroup == <<captureVars, fnVars, rlsVars, scoreVars, csvVars, streamVars,
              authVars, enrichVars, tabVars>>

notCsv == <<captureVars, fnVars, rlsVars, scoreVars, groupVars, streamVars,
            authVars, enrichVars, tabVars>>

notStream == <<captureVars, fnVars, rlsVars, scoreVars, groupVars, csvVars,
               authVars, enrichVars, tabVars>>

notAuth == <<captureVars, fnVars, rlsVars, scoreVars, groupVars, csvVars,
             streamVars, enrichVars, tabVars>>

notTab == <<captureVars, fnVars, rlsVars, scoreVars, groupVars, csvVars,
            streamVars, authVars, enrichVars>>

NULL == "null"

-----------------------------------------------------------------------------
(* Bounds *)

MaxInvocations == 2
MaxMessages == 4

\* two handler invocations can be in flight at once
Procs == {1, 2}
Sessions == {"s1", "s2"}

-----------------------------------------------------------------------------
(* Request messages and the extraction functions of the chat handler *)

UserTexts == {"Dana Lee", "Dana@Gmail.com", "acme.io", "555-123-4567", "hello"}

Messages == [role : {"user"}, content : UserTexts]
            \cup {[role |-> "assistant", content |-> "What is your name?"]}

\* /[a-zA-Z0-9._%+-]+@[a-zA-Z0-9.-]+\.[a-zA-Z]{2,}/, match lower-cased
extractEmail(text) ==
    CASE text = "Dana@Gmail.com" -> "dana@gmail.com"
      [] OTHER                   -> NULL

\* first domain-like match, refused when it names a personal mail provider,
\* prefixed with https:// unless it starts with http
extractWebsite(text) ==
    CASE text = "acme.io"        -> "https://acme.io"
      [] text = "Dana@Gmail.com" -> NULL
      [] OTHER                   -> NULL

\* phone pattern, separators stripped, at least 10 characters
extractPhone(text) ==
    CASE text = "555-123-4567" -> "5551234567"
      [] OTHER                 -> NULL

\* a message that passes the name heuristic: at most 4 words, under 50
\* characters, starts with a capital then a lower-case letter, no "@", no
\* ".com"/".co", not numeric, not a phone number
LooksLikeName(text) ==
    text \in {"Dana Lee", "What is your name?"}

RECURSIVE FirstName(_)
FirstName(msgs) ==
    IF msgs = <<>> THEN NULL
    ELSE IF Head(msgs).role = "user" /\ LooksLikeName(Head(msgs).content)
         THEN Head(msgs).content
         ELSE FirstName(Tail(msgs))

extractName(msgs) == FirstName(msgs)

RECURSIVE SelectUser(_)
SelectUser(msgs) ==
    IF msgs = <<>> THEN <<>>
    ELSE IF Head(msgs).role = "user"
         THEN <<Head(msgs)>> \o SelectUser(Tail(msgs))
         ELSE SelectUser(Tail(msgs))

\* for (const msg of userMessages) { if (!detectedX) detectedX = extractX(content) }
RECURSIVE FirstDetected(_)
FirstDetected(extracted) ==
    IF extracted = <<>> THEN NULL
    ELSE IF Head(extracted) # NULL
         THEN Head(extracted)
         ELSE FirstDetected(Tail(extracted))

captureScoreEmailAsWebsite(name, email, website, phone) ==
    (IF name THEN 20 ELSE 0) + (IF email THEN 25 ELSE 0)
    + (IF website THEN 25 ELSE 0) + (IF phone THEN 15 ELSE 0)

\* capture-time score: name +20, email +30, website +25, phone +15
captureScore(name, email, website, phone) ==
    (IF name THEN 20 ELSE 0) + (IF email THEN 30 ELSE 0)
    + (IF website THEN 25 ELSE 0) + (IF phone THEN 15 ELSE 0)

Detect(sessionId, msgs) ==
    LET userMessages == SelectUser(msgs)
        name    == extractName(userMessages)
        email   == FirstDetected([i \in 1..Len(userMessages) |->
                                    extractEmail(userMessages[i].content)])
        website == FirstDetected([i \in 1..Len(userMessages) |->
                                    extractWebsite(userMessages[i].content)])
        phone   == FirstDetected([i \in 1..Len(userMessages) |->
                                    extractPhone(userMessages[i].content)])
    IN [sessionId |-> sessionId, name |-> name, email |-> email,
        website |-> website, phone |-> phone,
        leadScore |-> captureScore(name # NULL, email # NULL,
                                   website # NULL, phone # NULL)]

CaptureGuardAnySignal(d) ==
    d.sessionId # NULL /\ (d.name # NULL \/ d.email # NULL)

\* if (detectedName && sessionId)
CaptureGuard(d) == d.name # NULL /\ d.sessionId # NULL

NoReq == [sessionId |-> NULL, name |-> NULL, email |-> NULL, website |-> NULL,
          phone |-> NULL, leadScore |-> 0]

RequestLists == UNION {[1..n -> Messages] : n \in 1..MaxMessages}

\* what the scan of lines 80-110 yields over every request of the model;
\* a request may come without a sessionId
DetectedRequests ==
    {Detect(sessionId, msgs) : sessionId \in Sessions \cup {NULL},
                               msgs \in RequestLists}

-----------------------------------------------------------------------------
(* The leads table as the chat handler uses it *)

NoLead == [id |-> NULL, lead_score |-> 0, website |-> NULL, email |-> NULL]

\* .select('id, lead_score, website, email') of a row
Selected(l) == [id |-> l.id, lead_score |-> l.lead_score,
                website |-> l.website, email |-> l.email]

\* .maybeSingle(): the row when exactly one matches, null when none does,
\* and an error (data null) when several do
maybeSingle(rows) ==
    IF Cardinality(rows) = 1 THEN Selected(CHOOSE l \in rows : TRUE) ELSE NoLead

LookupByEmailMissing(email) == NoLead

\* .from('leads').select(...).eq('email', detectedEmail).maybeSingle()
LookupByEmail(email) == maybeSingle({l \in leads : l.email = email})

SessionNote(sessionId) == "session:" \o sessionId

SessionRowsOfAnySession(sessionId) == {l \in leads : l.source = "chatbot"}

\* .eq('source', 'chatbot').eq('notes', `session:${sessionId}`).maybeSingle()
SessionRows(sessionId) ==
    {l \in leads : l.source = "chatbot" /\ l.notes = SessionNote(sessionId)}

LookupBySession(sessionId) == maybeSingle(SessionRows(sessionId))

\* detectedEmail || `pending_${sessionId}@chatbot.temp`
placeholderEmail(r) ==
    IF r.email # NULL THEN r.email
    ELSE "pending_" \o r.sessionId \o "@chatbot.temp"

\* id uuid DEFAULT gen_random_uuid(): an opaque key, fresh for every row; the
\* model names a row after the email it was inserted with, which no other
\* row shares
NewId(email) == "lead:" \o email

leadData(r) ==
    [id |-> NewId(placeholderEmail(r)), email |-> placeholderEmail(r), full_name |-> r.name,
     source |-> "chatbot", lead_score |-> r.leadScore,
     notes |-> SessionNote(r.sessionId), website |-> r.website,
     phone |-> r.phone,
     \* not in the payload: qualification_status TEXT DEFAULT 'cool'
     qualification_status |-> "cool",
     \* not in the payload: industry TEXT
     industry |-> NULL]

InsertNotificationsBoth(r) == {"webhook", "enrich"}

\* lines 194-218: the webhook forwarder, and the enrichment when a website
\* was detected
InsertNotifications(r) ==
    {"webhook"} \cup (IF r.website # NULL THEN {"enrich"} ELSE {})

UniqueIgnored(email, id) == TRUE

\* ADD CONSTRAINT leads_email_unique UNIQUE (email): whether the row `id`
\* (NULL for a row being inserted) may hold `email`
leads_email_unique(email, id) ==
    \A l \in leads : l.id # id => l.email # email

ScoreDiffers(new, stored) == new # stored

\* leadScore > (existingLead.lead_score || 0)
ScoreRaised(new, stored) == new > stored

UpdateKeysOverwriting(r, ex) ==
    (IF r.email # NULL THEN {"email"} ELSE {})
    \cup (IF r.website # NULL THEN {"website"} ELSE {})
    \cup (IF r.phone # NULL THEN {"phone"} ELSE {})
    \cup (IF ScoreRaised(r.leadScore, ex.lead_score) THEN {"lead_score"} ELSE {})

\* the keys of `updates` the update branch sets
UpdateKeys(r, ex) ==
    (IF r.email # NULL /\ ex.email = NULL THEN {"email"} ELSE {})
    \cup (IF r.website # NULL /\ ex.website = NULL THEN {"website"} ELSE {})
    \cup (IF r.phone # NULL THEN {"phone"} ELSE {})
    \cup (IF ScoreRaised(r.leadScore, ex.lead_score) THEN {"lead_score"} ELSE {})

\* .update(updates).eq('id', existingLead.id) applied to one row
Updated(l, r, keys) ==
    [l EXCEPT !.email      = IF "email" \in keys THEN r.email ELSE @,
              !.website    = IF "website" \in keys THEN r.website ELSE @,
              !.phone      = IF "phone" \in keys THEN r.phone ELSE @,
              !.lead_score = IF "lead_score" \in keys THEN r.leadScore ELSE @]

DbErrorEscapes == "fail"

\* catch (dbError) { console.error(...) }: the handler goes on to the AI call
DbErrorCaught == "ai"

StoreResults == {"ok", "error", "throw"}

-----------------------------------------------------------------------------
(* The chat handler, one action per await *)

Idle(p) == pc[p] \in {"idle", "done"}

\* after a lookup returned `row`: the update branch when a lead was found and
\* `updates` has a key, nothing when it has none, the insert branch otherwise
AfterFound(p, row) ==
    /\ existingLead' = [existingLead EXCEPT ![p] = row]
    /\ IF UpdateKeys(req[p], row) # {}
       THEN /\ pc' = [pc EXCEPT ![p] = "update"]
            /\ UNCHANGED outcome
       ELSE /\ pc' = [pc EXCEPT ![p] = "ai"]
            /\ outcome' = [outcome EXCEPT ![p] = "unchanged"]

\* an exception inside the capture block
DbThrow(p) ==
    /\ outcome' = [outcome EXCEPT ![p] = "thrown"]
    /\ IF DbErrorCaught = "ai"
       THEN /\ pc' = [pc EXCEPT ![p] = "ai"]
            /\ UNCHANGED response
       ELSE /\ pc' = [pc EXCEPT ![p] = "done"]
            /\ response' = [response EXCEPT ![p] = "500"]

\* lines 72-110: parse the request, scan the user messages, decide whether
\* the capture block runs
Start(p) ==
    /\ UNCHANGED notCapture
    /\ Idle(p)
    /\ \A q \in Procs : q < p => ~Idle(q)
    /\ started < MaxInvocations
    /\ started' = started + 1
    /\ \E d \in DetectedRequests, keyConfigured \in BOOLEAN :
         /\ existingLead' = [existingLead EXCEPT ![p] = NoLead]
         /\ sent' = [sent EXCEPT ![p] = {}]
         /\ failed' = [failed EXCEPT ![p] = {}]
         /\ lookupsOk' = [lookupsOk EXCEPT ![p] = TRUE]
         /\ forwarded' = [forwarded EXCEPT ![p] = FALSE]
         /\ aiResult' = [aiResult EXCEPT ![p] = "none"]
         /\ IF ~keyConfigured
            THEN /\ req' = [req EXCEPT ![p] = NoReq]
                 /\ outcome' = [outcome EXCEPT ![p] = "none"]
                 /\ response' = [response EXCEPT ![p] = "500"]
                 /\ pc' = [pc EXCEPT ![p] = "done"]
            ELSE /\ req' = [req EXCEPT ![p] = d]
                 /\ response' = [response EXCEPT ![p] = "none"]
                 /\ IF CaptureGuard(d)
                    THEN /\ outcome' = [outcome EXCEPT ![p] = "none"]
                         /\ pc' = [pc EXCEPT ![p] =
                                     IF d.email # NULL THEN "lookupEmail"
                                     ELSE "lookupSession"]
                    ELSE /\ outcome' = [outcome EXCEPT ![p] = "skipped"]
                         /\ pc' = [pc EXCEPT ![p] = "ai"]
    /\ UNCHANGED leads

\* lines 115-122: look the lead up by the detected email
LookupEmail(p) ==
    /\ UNCHANGED notCapture
    /\ pc[p] = "lookupEmail"
    /\ UNCHANGED <<leads, started, req, sent, failed, forwarded, aiResult>>
    /\ \E res \in StoreResults :
         CASE res = "throw" ->
                /\ DbThrow(p)
                /\ UNCHANGED <<existingLead, lookupsOk>>
           [] res = "error" ->
                /\ lookupsOk' = [lookupsOk EXCEPT ![p] = FALSE]
                /\ pc' = [pc EXCEPT ![p] = "lookupSession"]
                /\ UNCHANGED <<existingLead, outcome, response>>
           [] res = "ok" ->
                /\ UNCHANGED <<lookupsOk, response>>
                /\ IF LookupByEmail(req[p].email) # NoLead
                   THEN AfterFound(p, LookupByEmail(req[p].email))
                   ELSE /\ pc' = [pc EXCEPT ![p] = "lookupSession"]
                        /\ UNCHANGED <<existingLead, outcome>>

\* lines 124-133: look the lead up by the session note
LookupSession(p) ==
    /\ UNCHANGED notCapture
    /\ pc[p] = "lookupSession"
    /\ UNCHANGED <<leads, started, req, sent, failed, forwarded, aiResult>>
    /\ \E res \in StoreResults :
         CASE res = "throw" ->
                /\ DbThrow(p)
                /\ UNCHANGED <<existingLead, lookupsOk>>
           [] res = "error" ->
                /\ lookupsOk' = [lookupsOk EXCEPT ![p] = FALSE]
                /\ pc' = [pc EXCEPT ![p] = "insert"]
                /\ UNCHANGED <<existingLead, outcome, response>>
           [] res = "ok" ->
                /\ lookupsOk' = [lookupsOk EXCEPT ![p] =
                      @ /\ Cardinality(SessionRows(req[p].sessionId)) <= 1]
                /\ UNCHANGED response
                /\ IF LookupBySession(req[p].sessionId) # NoLead
                   THEN AfterFound(p, LookupBySession(req[p].sessionId))
                   ELSE /\ pc' = [pc EXCEPT ![p] = "insert"]
                        /\ UNCHANGED <<existingLead, outcome>>

\* lines 144-166: issue the update and, when the website was just added,
\* trigger the enrichment
Update(p) ==
    /\ UNCHANGED notCapture
    /\ pc[p] = "update"
    /\ UNCHANGED <<started, req, existingLead, lookupsOk, forwarded,
                   aiResult, failed>>
    /\ \E res \in StoreResults :
         LET keys == UpdateKeys(req[p], existingLead[p])
             id   == existingLead[p].id
             newEmail == IF "email" \in keys THEN req[p].email ELSE NULL
         IN
         CASE res = "throw" ->
                /\ DbThrow(p)
                /\ UNCHANGED <<leads, sent>>
           [] res = "error"
              \/ (res = "ok" /\ "email" \in keys
                  /\ ~leads_email_unique(newEmail, id)) ->
                /\ outcome' = [outcome EXCEPT ![p] = "updateError"]
                /\ pc' = [pc EXCEPT ![p] = "ai"]
                /\ UNCHANGED <<leads, sent, response>>
           [] OTHER ->
                /\ leads' = {IF l.id = id THEN Updated(l, req[p], keys) ELSE l
                              : l \in leads}
                /\ outcome' = [outcome EXCEPT ![p] = "updated"]
                /\ sent' = [sent EXCEPT ![p] =
                              IF "website" \in keys THEN {"enrich"} ELSE {}]
                /\ pc' = [pc EXCEPT ![p] = "ai"]
                /\ UNCHANGED response

\* lines 168-220: insert the new lead and, when the insert succeeded, notify
\* the webhook forwarder and (with a website) the enrichment
Insert(p) ==
    /\ UNCHANGED notCapture
    /\ pc[p] = "insert"
    /\ UNCHANGED <<started, req, existingLead, lookupsOk, forwarded, aiResult,
                   failed>>
    /\ \E res \in StoreResults :
         LET row == leadData(req[p]) IN
         CASE res = "throw" ->
                /\ DbThrow(p)
                /\ UNCHANGED <<leads, sent>>
           [] res = "error" ->
                /\ outcome' = [outcome EXCEPT ![p] = "insertError"]
                /\ pc' = [pc EXCEPT ![p] = "ai"]
                /\ UNCHANGED <<leads, sent, response>>
           [] res = "ok" /\ ~leads_email_unique(row.email, NULL) ->
                /\ outcome' = [outcome EXCEPT ![p] = "insertRejected"]
                /\ pc' = [pc EXCEPT ![p] = "ai"]
                /\ UNCHANGED <<leads, sent, response>>
           [] OTHER ->
                /\ leads' = leads \cup {row}
                /\ outcome' = [outcome EXCEPT ![p] = "inserted"]
                /\ sent' = [sent EXCEPT ![p] = InsertNotifications(req[p])]
                /\ pc' = [pc EXCEPT ![p] = "ai"]
                /\ UNCHANGED response

\* the gateway streams, answers 429 or 402, or fails (another status or a
\* failed fetch, both ending in the outer catch)
AiResults == {"ok", "429", "402", "error"}

\* lines 253-264: the response for each answer of the AI gateway
AiResponse(res) ==
    CASE res = "ok"  -> "stream"
      [] res = "429" -> "429"
      [] res = "402" -> "402"
      [] OTHER       -> "500"

\* lines 226-260: forward the messages to the AI gateway, stream its answer
Respond(p) ==
    /\ UNCHANGED notCapture
    /\ pc[p] = "ai"
    /\ \E res \in AiResults :
         /\ aiResult' = [aiResult EXCEPT ![p] = res]
         /\ response' = [response EXCEPT ![p] = AiResponse(res)]
    /\ forwarded' = [forwarded EXCEPT ![p] = TRUE]
    /\ pc' = [pc EXCEPT ![p] = "done"]
    /\ req' = [req EXCEPT ![p] = NoReq]
    /\ existingLead' = [existingLead EXCEPT ![p] = NoLead]
    /\ lookupsOk' = [lookupsOk EXCEPT ![p] = TRUE]
    /\ UNCHANGED <<leads, started, outcome, sent, failed>>

\* lines 206, 164 and 217: the request of a notification fails; the .catch
\* logs it.  The request was not awaited, so the handler may be anywhere
NotificationFails(p) ==
    /\ UNCHANGED notCapture
    /\ \E n \in sent[p] \ failed[p] :
         failed' = [failed EXCEPT ![p] = @ \cup {n}]
    /\ UNCHANGED <<leads, started, pc, req, existingLead, outcome, sent,
                   lookupsOk, forwarded, aiResult, response>>

CaptureInit ==
    /\ leads = {}
    /\ started = 0
    /\ pc = [p \in Procs |-> "idle"]
    /\ req = [p \in Procs |-> NoReq]
    /\ existingLead = [p \in Procs |-> NoLead]
    /\ outcome = [p \in Procs |-> "none"]
    /\ sent = [p \in Procs |-> {}]
    /\ failed = [p \in Procs |-> {}]
    /\ lookupsOk = [p \in Procs |-> TRUE]
    /\ forwarded = [p \in Procs |-> FALSE]
    /\ aiResult = [p \in Procs |-> "none"]
    /\ response = [p \in Procs |-> "none"]

-----------------------------------------------------------------------------
(* The scrape, enrich and webhook-forward edge functions *)

Functions == {"firecrawl-scrape", "enrich-lead", "zapier-webhook"}

\* the functions whose handler starts with verifyAuthorization
Gated == {"firecrawl-scrape", "enrich-lead"}

SecretHeaders == {NULL, "s3cret", "guess"}

\* Deno.env.get('INTERNAL_SECRET'): set on the deployment, or not
EnvSecrets == {NULL, "s3cret"}

AuthHeaders == {NULL, "Basic YWRtaW4=", "Bearer jwt-admin", "Bearer jwt-user",
                "Bearer jwt-expired"}

Bodies == {"none", "incomplete", "complete", "completeWithSession"}

FnRequests ==
    {r \in [fn : Functions, method : {"POST", "OPTIONS"},
            secret : SecretHeaders, expected : EnvSecrets,
            authorization : AuthHeaders, body : Bodies] :
        r.body = "completeWithSession" => r.fn = "zapier-webhook"}

NoFnRequest == [fn |-> NULL, method |-> NULL, secret |-> NULL, expected |-> NULL,
                authorization |-> NULL, body |-> NULL]

\* rows of public.user_roles
user_roles == {[user_id |-> "u-admin", role |-> "admin"],
               [user_id |-> "u-user", role |-> "user"]}

SecretPresent(internalSecret, expectedSecret) ==
    internalSecret # NULL /\ expectedSecret # NULL

\* internalSecret && expectedSecret && internalSecret === expectedSecret
SecretMatches(internalSecret, expectedSecret) ==
    internalSecret # NULL /\ expectedSecret # NULL /\ internalSecret = expectedSecret

\* authHeader?.startsWith('Bearer ')
startsWithBearer(authHeader) ==
    authHeader \in {"Bearer jwt-admin", "Bearer jwt-user", "Bearer jwt-expired"}

\* supabase.auth.getClaims(token): claims.sub of a valid token, NULL (an
\* error) otherwise
getClaims(authHeader) ==
    CASE authHeader = "Bearer jwt-admin" -> "u-admin"
      [] authHeader = "Bearer jwt-user"  -> "u-user"
      [] OTHER                           -> NULL

\* .from('user_roles').select('role').eq('user_id', userId).eq('role', 'admin')
AdminRoles(userId) ==
    {r \in user_roles : r.user_id = userId /\ r.role = "admin"}

FnFinish(status) ==
    /\ fnPc' = "done"
    /\ fnStatus' = status

\* the success field of the JSON body of the response: "true", "false",
\* "absent" when the body has none, "upstream" when the body is the scraping
\* service's own
FnAnswer(status, success) ==
    /\ FnFinish(status)
    /\ fnSuccess' = success

NoOutcomes == [scrape |-> "none", ai |-> "none"]

\* lines 53-63 and 8-21 of the gated functions, lines 101-104 of the webhook
\* forwarder: the request arrives; the secret header is compared, then the
\* Authorization header is inspected
Receive ==
    /\ fnPc \in {"idle", "done"}
    /\ UNCHANGED notFn
    /\ fnOutcomes' = NoOutcomes
    /\ \E r \in FnRequests :
         /\ fnReq' = r
         /\ fnUser' = NULL
         /\ fnEffects' = {}
         /\ CASE r.method = "OPTIONS" ->
                   /\ fnAuth' = "none"
                   /\ FnAnswer("200", "absent")
              [] r.method # "OPTIONS" /\ r.fn \notin Gated ->
                   /\ fnAuth' = "none"
                   /\ fnPc' = "body"
                   /\ fnStatus' = "none"
                   /\ fnSuccess' = "none"
              [] OTHER ->
                   IF SecretMatches(r.secret, r.expected)
                   THEN /\ fnAuth' = "authorized"
                        /\ fnPc' = "body"
                        /\ fnStatus' = "none"
                        /\ fnSuccess' = "none"
                   ELSE IF ~startsWithBearer(r.authorization)
                   THEN /\ fnAuth' = "401"
                        /\ FnAnswer("401", "absent")
                   ELSE /\ fnAuth' = "pending"
                        /\ fnPc' = "claims"
                        /\ fnStatus' = "none"
                        /\ fnSuccess' = "none"

\* lines 30-37: the token's claims
GetClaims ==
    /\ fnPc = "claims"
    /\ UNCHANGED notFn
    /\ UNCHANGED <<fnReq, fnEffects, fnOutcomes>>
    /\ \E answered \in BOOLEAN :
         IF answered /\ getClaims(fnReq.authorization) # NULL
         THEN /\ fnUser' = getClaims(fnReq.authorization)
              /\ fnPc' = "roles"
              /\ UNCHANGED <<fnAuth, fnStatus, fnSuccess>>
         ELSE /\ fnAuth' = "401"
              /\ FnAnswer("401", "absent")
              /\ UNCHANGED fnUser

\* lines 39-50: the admin role rows of the user
CheckRole ==
    /\ fnPc = "roles"
    /\ UNCHANGED notFn
    /\ UNCHANGED <<fnReq, fnUser, fnEffects, fnOutcomes>>
    /\ \E answered \in BOOLEAN :
         IF answered /\ AdminRoles(fnUser) # {}
         THEN /\ fnAuth' = "authorized"
              /\ fnPc' = "body"
              /\ UNCHANGED <<fnStatus, fnSuccess>>
         ELSE /\ fnAuth' = "403"
              /\ FnAnswer("403", "absent")

\* firecrawl-scrape lines 65-93
ScrapeBody ==
    /\ fnPc = "body"
    /\ fnReq.fn = "firecrawl-scrape"
    /\ UNCHANGED notFn
    /\ UNCHANGED <<fnReq, fnUser, fnAuth>>
    /\ \E apiKey \in BOOLEAN, upstream \in {"ok", "notOk", "throw"} :
         CASE fnReq.body = "none" ->
                 FnAnswer("500", "false") /\ UNCHANGED <<fnEffects, fnOutcomes>>
           [] fnReq.body = "incomplete" ->
                 FnAnswer("400", "false") /\ UNCHANGED <<fnEffects, fnOutcomes>>
           [] fnReq.body \notin {"none", "incomplete"} /\ ~apiKey ->
                 FnAnswer("500", "false") /\ UNCHANGED <<fnEffects, fnOutcomes>>
           [] OTHER ->
                 /\ fnEffects' = fnEffects \cup {"scrape"}
                 /\ fnOutcomes' = [fnOutcomes EXCEPT !.scrape = upstream]
                 /\ CASE upstream = "ok"    -> FnAnswer("200", "upstream")
                      [] upstream = "notOk" -> FnAnswer("upstream", "false")
                      [] OTHER              -> FnAnswer("500", "false")

\* what the scraping service did: answered with content, answered with none,
\* answered with an error status (its body holds no markdown), or failed
ScrapeOutcomes == {"content", "empty", "notOk", "throw"}

\* enrich-lead lines 65-93: validate the body, scrape the site
EnrichScrape ==
    /\ fnPc = "body"
    /\ fnReq.fn = "enrich-lead"
    /\ UNCHANGED notFn
    /\ UNCHANGED <<fnReq, fnUser, fnAuth>>
    /\ \E scrapeRes \in ScrapeOutcomes :
         IF fnReq.body \in {"none", "incomplete"}
         THEN FnAnswer("400", "absent") /\ UNCHANGED <<fnEffects, fnOutcomes>>
         ELSE /\ fnEffects' = fnEffects \cup {"scrape"}
              /\ fnOutcomes' = [fnOutcomes EXCEPT !.scrape = scrapeRes]
              /\ CASE scrapeRes = "throw" -> FnAnswer("500", "absent")
                   [] scrapeRes \in {"empty", "notOk"} -> FnAnswer("200", "false")
                   [] OTHER -> /\ fnPc' = "enrichAi"
                               /\ UNCHANGED <<fnStatus, fnSuccess>>

\* what the AI gateway did: answered with fields to store, answered with
\* none, answered with an error status (its body holds no choices), or failed
AiOutcomes == {"fields", "nothing", "notOk", "throw"}

\* enrich-lead lines 98-172: ask the AI gateway for the structured fields
EnrichAi ==
    /\ fnPc = "enrichAi"
    /\ UNCHANGED notFn
    /\ UNCHANGED <<fnReq, fnUser, fnAuth>>
    /\ fnEffects' = fnEffects \cup {"ai"}
    /\ \E aiRes \in AiOutcomes :
         /\ fnOutcomes' = [fnOutcomes EXCEPT !.ai = aiRes]
         /\ CASE aiRes = "throw" -> FnAnswer("500", "absent")
              [] aiRes \in {"nothing", "notOk"} -> FnAnswer("200", "true")
              [] OTHER -> /\ fnPc' = "enrichUpdate"
                          /\ UNCHANGED <<fnStatus, fnSuccess>>

\* enrich-lead lines 172-185: write the extracted fields to the lead
EnrichUpdate ==
    /\ fnPc = "enrichUpdate"
    /\ UNCHANGED notFn
    /\ UNCHANGED <<fnReq, fnUser, fnAuth, fnOutcomes>>
    /\ fnEffects' = fnEffects \cup {"leadUpdate"}
    /\ \E ok \in BOOLEAN :
         IF ok THEN FnAnswer("200", "true") ELSE FnAnswer("500", "false")

\* zapier-webhook lines 106-134: parse the lead, read the chat history of its
\* session
WebhookBody ==
    /\ fnPc = "body"
    /\ fnReq.fn = "zapier-webhook"
    /\ UNCHANGED notFn
    /\ UNCHANGED <<fnReq, fnUser, fnAuth, fnOutcomes>>
    /\ \E webhookUrl \in BOOLEAN :
         CASE fnReq.body = "none" ->
                 FnAnswer("500", "absent") /\ UNCHANGED fnEffects
           [] fnReq.body # "none" /\ ~webhookUrl ->
                 FnAnswer("200", "true") /\ UNCHANGED fnEffects
           [] OTHER ->
                 /\ fnEffects' = fnEffects \cup
                      (IF fnReq.body = "completeWithSession"
                       THEN {"chatRead"} ELSE {})
                 /\ fnPc' = "webhookPost"
                 /\ UNCHANGED <<fnStatus, fnSuccess>>

\* zapier-webhook lines 136-221: post the payload to the configured webhook
WebhookPost ==
    /\ fnPc = "webhookPost"
    /\ UNCHANGED notFn
    /\ UNCHANGED <<fnReq, fnUser, fnAuth, fnOutcomes>>
    /\ fnEffects' = fnEffects \cup {"webhook"}
    /\ \E posted \in {"ok", "notOk", "throw"} :
         CASE posted = "ok"    -> FnAnswer("200", "true")
           [] posted = "notOk" -> FnAnswer("500", "false")
           [] OTHER            -> FnAnswer("500", "absent")

FnInit ==
    /\ fnReq = NoFnRequest
    /\ fnPc = "idle"
    /\ fnUser = NULL
    /\ fnAuth = "none"
    /\ fnEffects = {}
    /\ fnStatus = "none"
    /\ fnSuccess = "none"
    /\ fnOutcomes = NoOutcomes

FnNext ==
    \/ Receive
    \/ GetClaims
    \/ CheckRole
    \/ ScrapeBody
    \/ EnrichScrape
    \/ EnrichAi
    \/ EnrichUpdate
    \/ WebhookBody
    \/ WebhookPost
-----------------------------------------------------------------------------
(* Row-level security of the public tables *)

MaxRows == 1

Tables == {"leads", "chat_interactions", "page_sessions", "analytics_events"}

Commands == {"INSERT", "SELECT", "UPDATE", "DELETE"}

RowIds == 1..MaxRows

\* a caller of the data API: the database role of its key or session, and
\* auth.uid()
Actors == {[role |-> "anon", uid |-> NULL],
           [role |-> "authenticated", uid |-> "u-user"],
           [role |-> "authenticated", uid |-> "u-admin"]}

has_roleAnyone(uid, role) == TRUE

\* public.has_role(_user_id, _role), SECURITY DEFINER
has_role(uid, role) ==
    \E r \in user_roles : r.user_id = uid /\ r.role = role

\* the policies in force; a policy without a TO clause applies to PUBLIC, and
\* an UPDATE policy's WITH CHECK is written out
Policies ==
    { [name |-> "Anyone can submit a lead", table |-> "leads",
       cmd |-> "INSERT", roles |-> {"anon", "authenticated"},
       using |-> "none", check |-> "true"],
      [name |-> "Anonymous users can insert leads", table |-> "leads",
       cmd |-> "INSERT", roles |-> {"anon"},
       using |-> "none", check |-> "true"],
      [name |-> "Admins can view all leads", table |-> "leads",
       cmd |-> "SELECT", roles |-> {"authenticated"},
       using |-> "admin", check |-> "none"],
      [name |-> "Admins can update leads", table |-> "leads",
       cmd |-> "UPDATE", roles |-> {"authenticated"},
       using |-> "admin", check |-> "admin"],
      [name |-> "Admins can delete leads", table |-> "leads",
       cmd |-> "DELETE", roles |-> {"anon", "authenticated"},
       using |-> "admin", check |-> "none"],
      [name |-> "Anonymous users can insert chat_interactions",
       table |-> "chat_interactions",
       cmd |-> "INSERT", roles |-> {"anon"},
       using |-> "none", check |-> "true"],
      [name |-> "Authenticated users can insert chat_interactions",
       table |-> "chat_interactions",
       cmd |-> "INSERT", roles |-> {"authenticated"},
       using |-> "none", check |-> "true"],
      [name |-> "Admins can view all chat_interactions",
       table |-> "chat_interactions",
       cmd |-> "SELECT", roles |-> {"authenticated"},
       using |-> "admin", check |-> "none"],
      [name |-> "Anonymous users can insert page_sessions",
       table |-> "page_sessions",
       cmd |-> "INSERT", roles |-> {"anon"},
       using |-> "none", check |-> "true"],
      [name |-> "Anonymous users can update page_sessions",
       table |-> "page_sessions",
       cmd |-> "UPDATE", roles |-> {"anon"},
       using |-> "true", check |-> "true"],
      [name |-> "Admins can view all page_sessions",
       table |-> "page_sessions",
       cmd |-> "SELECT", roles |-> {"authenticated"},
       using |-> "admin", check |-> "none"],
      [name |-> "Anyone can insert analytics events",
       table |-> "analytics_events",
       cmd |-> "INSERT", roles |-> {"anon", "authenticated"},
       using |-> "none", check |-> "true"],
      [name |-> "Admins can view all analytics events",
       table |-> "analytics_events",
       cmd |-> "SELECT", roles |-> {"anon", "authenticated"},
       using |-> "admin", check |-> "none"] }

\* the GRANT statements of the migrations
Grants ==
    { <<"leads", "INSERT", "anon">>, <<"leads", "INSERT", "authenticated">>,
      <<"chat_interactions", "INSERT", "anon">>,
      <<"page_sessions", "INSERT", "anon">>,
      <<"page_sessions", "UPDATE", "anon">>,
      <<"analytics_events", "INSERT", "anon">>,
      <<"analytics_events", "INSERT", "authenticated">>,
      <<"analytics_events", "SELECT", "authenticated">> }

\* a privilege comes from a GRANT of the migrations or from the default
\* privileges of the hosting project, on which the migrations are silent
Privileged(actor, table, cmd, defaults) ==
    defaults \/ <<table, cmd, actor.role>> \in Grants

\* a policy expression, evaluated for the caller
Holds(expr, actor) ==
    \/ expr = "true"
    \/ expr = "admin" /\ has_role(actor.uid, "admin")

Applicable(actor, table, cmd) ==
    {p \in Policies : p.table = table /\ p.cmd = cmd /\ actor.role \in p.roles}

\* permissive policies are OR-ed; with none applicable nothing passes
UsingPasses(actor, table, cmd) ==
    \E p \in Applicable(actor, table, cmd) : Holds(p.using, actor)

CheckPasses(actor, table, cmd) ==
    \E p \in Applicable(actor, table, cmd) : Holds(p.check, actor)

Present(table) == {i \in RowIds : tables[table][i] # "absent"}

\* the rows a command may touch: its own USING policies, and the SELECT
\* policies too when the command reads columns (WHERE or RETURNING)
Reachable(actor, table, cmd, reads) ==
    IF /\ UsingPasses(actor, table, cmd)
       /\ (reads /\ cmd # "SELECT") => UsingPasses(actor, table, "SELECT")
    THEN Present(table) ELSE {}

Op(actor, table, cmd, reads, result, rows) ==
    [role |-> actor.role, uid |-> actor.uid, table |-> table, cmd |-> cmd,
     reads |-> reads, result |-> result, rows |-> rows]

NoOp == [role |-> NULL, uid |-> NULL, table |-> NULL, cmd |-> NULL,
         reads |-> FALSE, result |-> NULL, rows |-> 0]

RlsInsert ==
    /\ UNCHANGED notRls
    /\ \E actor \in Actors, table \in Tables, reads \in BOOLEAN,
          defaults \in BOOLEAN :
         LET free == RowIds \ Present(table)
             id   == CHOOSE i \in free : \A j \in free : i <= j
         IN  CASE ~Privileged(actor, table, "INSERT", defaults)
                  \/ (reads /\ ~Privileged(actor, table, "SELECT", defaults)) ->
                    /\ lastOp' = Op(actor, table, "INSERT", reads, "denied", 0)
                    /\ UNCHANGED tables
               [] /\ Privileged(actor, table, "INSERT", defaults)
                  /\ reads => Privileged(actor, table, "SELECT", defaults)
                  /\ \/ ~CheckPasses(actor, table, "INSERT")
                     \/ reads /\ ~UsingPasses(actor, table, "SELECT") ->
                    /\ lastOp' = Op(actor, table, "INSERT", reads, "violation", 0)
                    /\ UNCHANGED tables
               [] OTHER ->
                    IF free = {}
                    THEN /\ lastOp' = Op(actor, table, "INSERT", reads, "full", 0)
                         /\ UNCHANGED tables
                    ELSE /\ lastOp' = Op(actor, table, "INSERT", reads, "ok", 1)
                         /\ tables' = [tables EXCEPT ![table][id] = "inserted"]

RlsSelect ==
    /\ UNCHANGED notRls
    /\ UNCHANGED tables
    /\ \E actor \in Actors, table \in Tables, defaults \in BOOLEAN :
         IF ~Privileged(actor, table, "SELECT", defaults)
         THEN lastOp' = Op(actor, table, "SELECT", TRUE, "denied", 0)
         ELSE lastOp' = Op(actor, table, "SELECT", TRUE, "ok",
                           Cardinality(Reachable(actor, table, "SELECT", TRUE)))

RlsUpdate ==
    /\ UNCHANGED notRls
    /\ \E actor \in Actors, table \in Tables, reads \in BOOLEAN,
          defaults \in BOOLEAN :
         LET rows == Reachable(actor, table, "UPDATE", reads)
         IN  CASE ~Privileged(actor, table, "UPDATE", defaults)
                  \/ (reads /\ ~Privileged(actor, table, "SELECT", defaults)) ->
                    /\ lastOp' = Op(actor, table, "UPDATE", reads, "denied", 0)
                    /\ UNCHANGED tables
               [] /\ Privileged(actor, table, "UPDATE", defaults)
                  /\ reads => Privileged(actor, table, "SELECT", defaults)
                  /\ rows # {}
                  /\ ~CheckPasses(actor, table, "UPDATE") ->
                    /\ lastOp' = Op(actor, table, "UPDATE", reads, "violation", 0)
                    /\ UNCHANGED tables
               [] OTHER ->
                    /\ lastOp' = Op(actor, table, "UPDATE", reads, "ok",
                                    Cardinality(rows))
                    /\ tables' = [tables EXCEPT ![table] =
                                    [i \in RowIds |->
                                       IF i \in rows THEN "updated" ELSE @[i]]]

RlsDelete ==
    /\ UNCHANGED notRls
    /\ \E actor \in Actors, table \in Tables, reads \in BOOLEAN,
          defaults \in BOOLEAN :
         LET rows == Reachable(actor, table, "DELETE", reads)
         IN  IF ~Privileged(actor, table, "DELETE", defaults)
                \/ (reads /\ ~Privileged(actor, table, "SELECT", defaults))
             THEN /\ lastOp' = Op(actor, table, "DELETE", reads, "denied", 0)
                  /\ UNCHANGED tables
             ELSE /\ lastOp' = Op(actor, table, "DELETE", reads, "ok",
                                  Cardinality(rows))
                  /\ tables' = [tables EXCEPT ![table] =
                                  [i \in RowIds |->
                                     IF i \in rows THEN "absent" ELSE @[i]]]

RlsInit ==
    /\ tables = [t \in Tables |-> [i \in RowIds |-> "absent"]]
    /\ lastOp = NoOp

RlsNext ==
    \/ RlsInsert
    \/ RlsSelect
    \/ RlsUpdate
    \/ RlsDelete
-----------------------------------------------------------------------------
(* Lead scoring of the dashboard *)

MaxMessageCount == 11

MaxStoredScore == 140

\* an optional field is <<>> when absent and <<v>> when present
Absent == <<>>

OptBool == {Absent, <<FALSE>>, <<TRUE>>}

Sources == {"project_plan_modal", "chatbot_with_url", "chatbot", "hero_modal",
            "use_case_page", "real_estate", "professional_services",
            "home_services", "education", "newsletter"}

IntentSignals ==
    [pricing : OptBool, timeline : OptBool, specificService : OptBool,
     urgency : OptBool]

LeadScoreInputs ==
    [source : Sources,
     messageCount : {Absent} \cup {<<n>> : n \in 0..MaxMessageCount},
     intentSignals : {Absent} \cup {<<s>> : s \in IntentSignals},
     hasWebsite : OptBool,
     hasAiFeedback : OptBool]

NoInput == [source |-> NULL, messageCount |-> Absent, intentSignals |-> Absent,
            hasWebsite |-> Absent, hasAiFeedback |-> Absent]

\* truthiness of an optional boolean
Truthy(opt) == opt # Absent /\ opt[1]

\* the switch on input.source
SourceScore(source) ==
    CASE source = "project_plan_modal" -> 30
      [] source = "chatbot_with_url"   -> 25
      [] source = "chatbot"            -> 15
      [] source = "hero_modal"         -> 10
      [] source \in {"use_case_page", "real_estate", "professional_services",
                     "home_services", "education"} -> 20
      [] OTHER -> 0

EngagementCumulative(messageCount) ==
    IF messageCount # Absent /\ messageCount[1] # 0
    THEN (IF messageCount[1] >= 11 THEN 35 ELSE 0)
         + (IF messageCount[1] >= 7 THEN 25 ELSE 0)
         + (IF messageCount[1] >= 4 THEN 15 ELSE 0)
         + (IF messageCount[1] >= 2 THEN 5 ELSE 0)
    ELSE 0

\* if (input.messageCount) { if >= 11 ... else if >= 7 ... }
EngagementScore(messageCount) ==
    IF messageCount # Absent /\ messageCount[1] # 0
    THEN CASE messageCount[1] >= 11 -> 35
           [] messageCount[1] >= 7 /\ messageCount[1] < 11 -> 25
           [] messageCount[1] >= 4 /\ messageCount[1] < 7  -> 15
           [] messageCount[1] >= 2 /\ messageCount[1] < 4  -> 5
           [] OTHER -> 0
    ELSE 0

\* if (input.intentSignals) { ... }
IntentScore(intentSignals) ==
    IF intentSignals # Absent
    THEN (IF Truthy(intentSignals[1].pricing) THEN 15 ELSE 0)
         + (IF Truthy(intentSignals[1].timeline) THEN 15 ELSE 0)
         + (IF Truthy(intentSignals[1].specificService) THEN 10 ELSE 0)
         + (IF Truthy(intentSignals[1].urgency) THEN 10 ELSE 0)
    ELSE 0

calculateLeadScore(input) ==
    SourceScore(input.source)
    + EngagementScore(input.messageCount)
    + IntentScore(input.intentSignals)
    + (IF Truthy(input.hasWebsite) THEN 10 ELSE 0)
    + (IF Truthy(input.hasAiFeedback) THEN 10 ELSE 0)

getQualificationStatusAbove(score) ==
    IF score > 70 THEN "hot"
    ELSE IF score >= 40 THEN "warm"
    ELSE IF score >= 20 THEN "cool"
    ELSE "cold"

getQualificationStatus(score) ==
    IF score >= 70 THEN "hot"
    ELSE IF score >= 40 THEN "warm"
    ELSE IF score >= 20 THEN "cool"
    ELSE "cold"

\* the scores a lead row may hold: lead_score is an unconstrained integer
StoredScores == (0 - 5)..MaxStoredScore

\* a feature record is scored
Score ==
    /\ scoreInput # NoInput
    /\ scored = Absent
    /\ UNCHANGED notScore
    /\ scored' = <<calculateLeadScore(scoreInput)>>
    /\ UNCHANGED <<scoreInput, badge>>

\* a lead row is loaded with its stored score
Load ==
    /\ scoreInput = NoInput
    /\ scored = Absent
    /\ UNCHANGED notScore
    /\ \E n \in StoredScores : scored' = <<n>>
    /\ UNCHANGED <<scoreInput, badge>>

\* the badge of a score
Badge ==
    /\ scored # Absent
    /\ badge = NULL
    /\ UNCHANGED notScore
    /\ badge' = getQualificationStatus(scored[1])
    /\ UNCHANGED <<scoreInput, scored>>

ScoreIdle ==
    /\ scoreInput = NoInput
    /\ scored = Absent
    /\ badge = NULL

ScoreInit ==
    /\ scoreInput \in LeadScoreInputs \cup {NoInput}
    /\ scored = Absent
    /\ badge = NULL

ScoreNext ==
    \/ Score
    \/ Load
    \/ Badge
-----------------------------------------------------------------------------
(* The conversations tab: chat interactions grouped by session *)

MaxInteractions == 3

MaxTime == 3

\* created_at is a timestamptz, finer than the milliseconds of a Date: the
\* stamps 2k and 2k+1 fall into millisecond k
Stamps == 0..MaxTime

\* new Date(created_at).getTime()
getTime(created_at) == created_at \div 2

NoMetadata == <<>>

ConversationOfDana ==
    [conversation_history |->
        << [role |-> "assistant", content |-> "Welcome"],
           [role |-> "user", content |-> "I am Dana"] >>,
     collected_data |-> [name |-> "Dana"]]

\* metadata whose embedded history has four turns and whose collected data
\* holds no name yet
ConversationOfFourTurns ==
    [conversation_history |->
        << [role |-> "assistant", content |-> "Welcome"],
           [role |-> "user", content |-> "book a call"],
           [role |-> "assistant", content |-> "Your name?"],
           [role |-> "user", content |-> "later"] >>,
     collected_data |-> [name |-> NULL]]

\* metadata?.collected_data || {}
NoCollectedData == [name |-> NULL]

\* the contents of a chat interaction row: a plain turn, an answer without a
\* user message, a row with an empty user message that carries the metadata
\* of its conversation, and a turn that carries metadata
Shapes ==
    { [user_message |-> "hi", assistant_message |-> "hello",
       lead_id |-> NULL, url_scraped |-> NULL, metadata |-> NoMetadata],
      [user_message |-> NULL, assistant_message |-> "anything else?",
       lead_id |-> NULL, url_scraped |-> NULL, metadata |-> NoMetadata],
      [user_message |-> "", assistant_message |-> NULL,
       lead_id |-> "lead1", url_scraped |-> "https://acme.io",
       metadata |-> <<ConversationOfDana>>],
      [user_message |-> "book a call", assistant_message |-> "Your name?",
       lead_id |-> NULL, url_scraped |-> NULL,
       metadata |-> <<ConversationOfFourTurns>>] }

ChatInteraction(id, session_id, created_at, shape) ==
    [id |-> id, session_id |-> session_id, created_at |-> created_at,
     user_message |-> shape.user_message,
     assistant_message |-> shape.assistant_message, lead_id |-> shape.lead_id,
     url_scraped |-> shape.url_scraped, metadata |-> shape.metadata]

\* .order('created_at', { ascending: false }): every listing of the table in
\* descending created_at; the order of equal stamps is the database's choice
QueryResults(rows) ==
    LET n == Cardinality(rows)
    IN  {s \in [1..n -> rows] :
            /\ \A i, j \in 1..n : i # j => s[i] # s[j]
            /\ \A i, j \in 1..n : i < j => s[i].created_at >= s[j].created_at}

\* Array.prototype.sort with a numeric comparator: ascending in the key, and
\* stable
Rank(keys, i) ==
    1 + Cardinality({j \in DOMAIN keys :
                        keys[j] < keys[i] \/ (keys[j] = keys[i] /\ j < i)})

StableSort(s, keys) ==
    [r \in 1..Len(s) |-> s[CHOOSE i \in 1..Len(s) : Rank(keys, i) = r]]

\* the keys of sessionMap, in insertion order
RECURSIVE MapKeys(_)
MapKeys(list) ==
    IF list = <<>> THEN <<>>
    ELSE LET front == MapKeys(SubSeq(list, 1, Len(list) - 1))
             key   == list[Len(list)].session_id
         IN  IF \E i \in 1..Len(front) : front[i] = key
             THEN front ELSE Append(front, key)

\* sessionMap.get(session_id)
SessionInteractions(list, session_id) ==
    LET OfSession(i) == i.session_id = session_id
    IN  SelectSeq(list, OfSession)

SortedAscending(sessionInteractions) ==
    StableSort(sessionInteractions,
               [i \in 1..Len(sessionInteractions) |->
                    getTime(sessionInteractions[i].created_at)])

EarliestMetadata(sessionInteractions) ==
    LET HasMetadata(i) == i.metadata # NoMetadata
        withMetadata   == SelectSeq(sessionInteractions, HasMetadata)
        earliestFirst  == StableSort(withMetadata,
                              [i \in 1..Len(withMetadata) |->
                                   getTime(withMetadata[i].created_at)])
    IN  IF earliestFirst = <<>> THEN NoMetadata ELSE earliestFirst[1].metadata

\* [...sessionInteractions].filter(i => i.metadata).sort(descending)[0]
LatestMetadata(sessionInteractions) ==
    LET HasMetadata(i) == i.metadata # NoMetadata
        withMetadata   == SelectSeq(sessionInteractions, HasMetadata)
        latestFirst    == StableSort(withMetadata,
                              [i \in 1..Len(withMetadata) |->
                                   0 - getTime(withMetadata[i].created_at)])
    IN  IF latestFirst = <<>> THEN NoMetadata ELSE latestFirst[1].metadata

\* what `!text` is true for, of a string or null
Falsy(text) == text \in {NULL, ""}

\* sorted.find(i => i[field])?.[field] || null
FirstWith(sorted, field) ==
    LET hits == {i \in 1..Len(sorted) : ~Falsy(sorted[i][field])}
    IN  IF hits = {} THEN NULL
        ELSE sorted[CHOOSE i \in hits : \A j \in hits : i <= j][field]

\* conversationHistory.find(m => m.role === 'user')?.content || null
FirstUserContent(conversationHistory) ==
    LET hits == {i \in 1..Len(conversationHistory) :
                    conversationHistory[i].role = "user"}
        found == conversationHistory[CHOOSE i \in hits :
                                         \A j \in hits : i <= j].content
    IN  IF hits = {} \/ Falsy(found) THEN NULL ELSE found

GroupedSession(list, session_id) ==
    LET sessionInteractions == SessionInteractions(list, session_id)
        sorted              == SortedAscending(sessionInteractions)
        metadata            == LatestMetadata(sessionInteractions)
        conversationHistory ==
            IF metadata = NoMetadata THEN <<>>
            ELSE metadata[1].conversation_history
        collectedData ==
            IF metadata = NoMetadata THEN NoCollectedData
            ELSE metadata[1].collected_data
        firstUserMessage ==
            IF FirstWith(sorted, "user_message") # NULL
            THEN FirstWith(sorted, "user_message")
            ELSE FirstUserContent(conversationHistory)
    IN  [session_id |-> session_id,
         started_at |-> sorted[1].created_at,
         last_activity |-> sorted[Len(sorted)].created_at,
         interaction_count |-> Len(sorted),
         lead_id |-> FirstWith(sorted, "lead_id"),
         lead_name |-> collectedData.name,
         first_message |-> firstUserMessage,
         conversation_history |-> conversationHistory,
         collected_data |-> collectedData,
         has_url_scraped |->
            \E i \in 1..Len(sorted) : sorted[i].url_scraped # NULL,
         interactions |-> sorted]

\* the groupedSessions memo
GroupSessions(list) ==
    LET keys     == MapKeys(list)
        sessions == [k \in 1..Len(keys) |-> GroupedSession(list, keys[k])]
    IN  StableSort(sessions,
                   [k \in 1..Len(sessions) |->
                        0 - getTime(sessions[k].last_activity)])

\* ConversationDetailModal lines 160-171: the bubbles of the interactions, the
\* user message then the assistant message of each, null and empty fields
\* skipped
RECURSIVE Bubbles(_)
Bubbles(list) ==
    IF list = <<>> THEN <<>>
    ELSE (IF ~Falsy(Head(list).user_message)
          THEN <<[role |-> "user", content |-> Head(list).user_message]>>
          ELSE <<>>)
         \o (IF ~Falsy(Head(list).assistant_message)
             THEN <<[role |-> "assistant",
                     content |-> Head(list).assistant_message]>>
             ELSE <<>>)
         \o Bubbles(Tail(list))

\* ConversationDetailModal lines 154-172: the embedded history when it has
\* entries, the bubbles of the interactions otherwise
MessageList(session) ==
    IF Len(session.conversation_history) > 0
    THEN session.conversation_history
    ELSE Bubbles(session.interactions)

\* a chat surface writes an interaction row
InsertInteraction ==
    /\ Cardinality(chat_interactions) < MaxInteractions
    /\ UNCHANGED notGroup
    /\ \E session_id \in Sessions, created_at \in Stamps, shape \in Shapes :
         chat_interactions' = chat_interactions \cup
            {ChatInteraction(Cardinality(chat_interactions) + 1, session_id,
                             created_at, shape)}
    /\ UNCHANGED <<interactions, groupedSessions>>

\* the query runs (first load, or after a realtime invalidation) and the
\* memo regroups its result
Refetch ==
    /\ UNCHANGED notGroup
    /\ UNCHANGED chat_interactions
    /\ \E data \in QueryResults(chat_interactions) :
         /\ interactions' = data
         /\ groupedSessions' = GroupSessions(data)

GroupInit ==
    /\ chat_interactions = {}
    /\ interactions = <<>>
    /\ groupedSessions = <<>>

GroupNext ==
    \/ InsertInteraction
    \/ Refetch
-----------------------------------------------------------------------------
(* CSV export of the leads, from the two tabs that offer it *)

MaxFieldLen == 2

\* a text is a sequence of characters; these are a plain character and the
\* four that matter to a CSV reader
Chars == {"a", ",", "\"", "\n", "\r"}

Texts == UNION {[1..n -> Chars] : n \in 0..MaxFieldLen}

\* the text columns of a lead that the exports write; a null column is
\* written as the empty text (l.phone || '')
TextColumns == {"full_name", "email", "phone", "website", "industry",
                "source", "qualification_status"}

PlainLead == [c \in TextColumns |-> <<"a">>]

\* leads of which up to two columns hold an arbitrary text
ExportLeads ==
    {[PlainLead EXCEPT ![c] = v, ![d] = w] :
        c \in TextColumns, d \in TextColumns, v \in Texts, w \in Texts}

\* field.replace(/"/g, '""')
RECURSIVE DoubleQuotes(_)
DoubleQuotes(field) ==
    IF field = <<>> THEN <<>>
    ELSE (IF Head(field) = "\"" THEN <<"\"", "\"">> ELSE <<Head(field)>>)
         \o DoubleQuotes(Tail(field))

NeverQuoted(field) == field

\* escapeCSVField of ChatTab.tsx
escapeCSVField(field) ==
    IF \E i \in 1..Len(field) : field[i] \in {",", "\"", "\n", "\r"}
    THEN <<"\"">> \o DoubleQuotes(field) \o <<"\"">>
    ELSE field

\* cells.join(separator)
RECURSIVE Join(_, _)
Join(cells, separator) ==
    IF cells = <<>> THEN <<>>
    ELSE IF Len(cells) = 1 THEN cells[1]
    ELSE cells[1] \o <<separator>> \o Join(Tail(cells), separator)

\* the score, date and archived cells hold no character special to CSV
ScoreCell == <<"0">>

DateCell == <<"2026-01-29">>

ArchivedCell == <<"No">>

ChatTabHeaders ==
    << <<"Name">>, <<"Email">>, <<"Phone">>, <<"Website">>, <<"Industry">>,
       <<"Source">>, <<"Score">>, <<"Status">>, <<"Date">>, <<"Archived">> >>

ChatTabRow(l) ==
    << escapeCSVField(l.full_name), escapeCSVField(l.email),
       escapeCSVField(l.phone), escapeCSVField(l.website),
       escapeCSVField(l.industry), escapeCSVField(l.source), ScoreCell,
       escapeCSVField(l.qualification_status), DateCell, ArchivedCell >>

LeadsTabHeaders ==
    << <<"Name">>, <<"Email">>, <<"Phone">>, <<"Website">>, <<"Industry">>,
       <<"Source">>, <<"Score">>, <<"Date">> >>

LeadsTabRow(l) ==
    << l.full_name, l.email, l.phone, l.website, l.industry, l.source,
       ScoreCell, DateCell >>

\* [headers, ...rows].map(row => row.join(',')).join('\n')
CsvText(rows) ==
    Join([r \in 1..Len(rows) |-> Join(rows[r], ",")], "\n")

NoCsv == [tab |-> NULL, text |-> <<>>]

\* handleExportCSV of ChatTab.tsx
ExportFromChatTab ==
    /\ leadRows # <<>>
    /\ UNCHANGED notCsv
    /\ csv' = [tab |-> "ChatTab",
               text |-> CsvText(<<ChatTabHeaders>> \o
                           [r \in 1..Len(leadRows) |-> ChatTabRow(leadRows[r])])]
    /\ UNCHANGED leadRows

\* handleExportCSV of LeadsTab.tsx
ExportFromLeadsTab ==
    /\ leadRows # <<>>
    /\ UNCHANGED notCsv
    /\ csv' = [tab |-> "LeadsTab",
               text |-> CsvText(<<LeadsTabHeaders>> \o
                           [r \in 1..Len(leadRows) |-> LeadsTabRow(leadRows[r])])]
    /\ UNCHANGED leadRows

CsvIdle ==
    /\ leadRows = <<>>
    /\ csv = NoCsv

\* the tab holds one lead, or two of which the first is plain
CsvInit ==
    /\ leadRows \in {<<l>> : l \in ExportLeads}
                    \cup {<<PlainLead, l>> : l \in ExportLeads}
    /\ csv = NoCsv

CsvNext ==
    \/ ExportFromChatTab
    \/ ExportFromLeadsTab

-----------------------------------------------------------------------------
(* The chat client of the test page reading the streamed response
   (src/unnamed/part_006, handleChat).  The body is a sequence of tokens: the
   'data: ' prefix, JSON payloads, the sentinel, a comment, carriage return
   and newline.  A chunk of the reader is any run of tokens. *)

MaxLines == 3

\* the lines a server-sent-event body is made of: payloads
\* {"choices":[{"delta":{"content":"a"}}]}, the same with "b" and a
\* carriage return, a delta without content, text that is not JSON, the
\* sentinel, a comment and the empty line
Lines ==
    {<<"data: ", "{a}">>, <<"data: ", "{b}", "\r">>, <<"data: ", "{}">>,
     <<"data: ", "{">>, <<"data: ", "[DONE]">>, <<": ping">>, <<>>}

RECURSIVE Flatten(_)
Flatten(lines) ==
    IF lines = <<>> THEN <<>>
    ELSE Head(lines) \o <<"\n">> \o Flatten(Tail(lines))

\* the bodies: up to MaxLines lines, each ended by a newline, the last one
\* possibly cut before its newline
StreamBodies ==
    UNION {{Flatten(ls), IF ls = <<>> THEN <<>>
                          ELSE SubSeq(Flatten(ls), 1, Len(Flatten(ls)) - 1)} :
            ls \in UNION {[1..n -> Lines] : n \in 0..MaxLines}}

\* buffer.indexOf('\n'), 0 for -1
indexOfNewline(text) ==
    IF \E i \in 1..Len(text) : text[i] = "\n"
    THEN CHOOSE i \in 1..Len(text) :
            text[i] = "\n" /\ \A j \in 1..(i - 1) : text[j] # "\n"
    ELSE 0

\* if (line.endsWith('\r')) line = line.slice(0, -1)
stripCarriageReturn(line) ==
    IF line # <<>> /\ line[Len(line)] = "\r"
    THEN SubSeq(line, 1, Len(line) - 1) ELSE line

startsWithData(line) == line # <<>> /\ Head(line) = "data: "

\* String.prototype.trim over the tokens: whitespace at both ends goes
RECURSIVE trim(_)
trim(text) ==
    IF text = <<>> THEN <<>>
    ELSE IF Head(text) \in {"\r", "\n"} THEN trim(Tail(text))
    ELSE IF text[Len(text)] \in {"\r", "\n"}
         THEN trim(SubSeq(text, 1, Len(text) - 1))
    ELSE text

\* JSON.parse(jsonStr).choices?.[0]?.delta?.content, <<>> when parsing throws
\* or the content is missing
deltaContent(jsonStr) ==
    IF jsonStr = <<"{a}">> THEN <<"a">>
    ELSE IF jsonStr = <<"{b}">> THEN <<"b">>
    ELSE <<>>

\* lines 79-108: the inner loop over the complete lines of the buffer; the
\* sentinel leaves the loop and keeps the rest of the buffer
RECURSIVE DrainLines(_, _)
DrainLines(text, content) ==
    LET newlineIdx == indexOfNewline(text)
        line == stripCarriageReturn(SubSeq(text, 1, newlineIdx - 1))
        rest == SubSeq(text, newlineIdx + 1, Len(text))
        jsonStr == trim(Tail(line))
    IN IF newlineIdx = 0 THEN [buffer |-> text, content |-> content]
       ELSE IF ~startsWithData(line) THEN DrainLines(rest, content)
       ELSE IF jsonStr = <<"[DONE]">>
            THEN [buffer |-> rest, content |-> content]
       ELSE DrainLines(rest, content \o deltaContent(jsonStr))

\* lines 52-71: the request is answered and the reader is taken
OpenStream ==
    /\ streamPc = "opened"
    /\ streamPc' = "reading"
    /\ buffer' = <<>>
    /\ assistantContent' = <<>>
    /\ UNCHANGED <<stream, delivered>>
    /\ UNCHANGED notStream

\* lines 73-108: one read that returns a chunk, and the lines it completes
ReadChunk ==
    /\ streamPc = "reading"
    /\ delivered < Len(stream)
    /\ \E n \in 1..(Len(stream) - delivered) :
         LET value == SubSeq(stream, delivered + 1, delivered + n)
             drained == DrainLines(buffer \o value, assistantContent)
         IN /\ delivered' = delivered + n
            /\ buffer' = drained.buffer
            /\ assistantContent' = drained.content
    /\ UNCHANGED <<stream, streamPc>>
    /\ UNCHANGED notStream

\* lines 73-75: the read that reports the end of the body
ReadDone ==
    /\ streamPc = "reading"
    /\ delivered = Len(stream)
    /\ streamPc' = "done"
    /\ UNCHANGED <<stream, delivered, buffer, assistantContent>>
    /\ UNCHANGED notStream

StreamIdle ==
    /\ stream = <<>>
    /\ delivered = 0
    /\ buffer = <<>>
    /\ assistantContent = <<>>
    /\ streamPc = "idle"

StreamInit ==
    /\ stream \in StreamBodies
    /\ delivered = 0
    /\ buffer = <<>>
    /\ assistantContent = <<>>
    /\ streamPc = "opened"

StreamNext ==
    \/ OpenStream
    \/ ReadChunk
    \/ ReadDone

-----------------------------------------------------------------------------
(* AuthProvider (src/src/hooks/useAuth.tsx).  Time is counted in seconds
   since the effect ran; a timer fires when its delay has passed. *)

MaxNow == 10
MaxRoleChecks == 1

\* withTimeout(sessionPromise, 5000, 'Auth session')
SessionTimeout == 5

\* withTimeout(rolePromise, 4000, 'Role check')
RoleTimeout == 4

\* window.setTimeout(..., 6000)
SafetyDelay == 6

\* what getSession and onAuthStateChange deliver: no session, or the session
\* of a user, named by the id of the user
AuthSessions == {NULL, "u-admin", "u-user"}

NoRoleCheck == [userId |-> NULL, deadline |-> 0]

NeverDue(deadline) == FALSE

\* the callback of a window.setTimeout runs once its delay has passed
Due(deadline) == now >= deadline

\* Array.isArray(roles) && roles.length > 0, over the answer of the query; a
\* query that fails answers without rows
FoundAdmin(userId, answered) == answered /\ AdminRoles(userId) # {}

\* lines 66-77: the session lookup resolves before its timeout
SessionResolves ==
    /\ initPc = "getSession"
    /\ UNCHANGED notAuth
    /\ UNCHANGED <<mounted, safety, roleChecks, now>>
    /\ \E s \in AuthSessions :
         IF ~mounted
         THEN /\ initPc' = "finished"
              /\ UNCHANGED <<isLoading, isAdmin, authSession, user, roleCheck>>
         ELSE /\ authSession' = s
              /\ user' = s
              /\ IF s # NULL
                 THEN /\ initPc' = "roleCheck"
                      /\ roleCheck' = [userId |-> s,
                                       deadline |-> now + RoleTimeout]
                      /\ UNCHANGED <<isLoading, isAdmin>>
                 ELSE /\ initPc' = "finished"
                      /\ isAdmin' = FALSE
                      /\ isLoading' = FALSE
                      /\ UNCHANGED roleCheck

\* lines 78-87: the catch and finally blocks of initializeAuth
InitFailed ==
    /\ initPc' = "finished"
    /\ IF mounted
       THEN /\ authSession' = NULL
            /\ user' = NULL
            /\ isAdmin' = FALSE
            /\ isLoading' = FALSE
       ELSE UNCHANGED <<authSession, user, isAdmin, isLoading>>
    /\ UNCHANGED <<mounted, safety, roleCheck, roleChecks, now>>

\* lines 65-66: the session lookup rejects
SessionRejects ==
    /\ initPc = "getSession"
    /\ UNCHANGED notAuth
    /\ InitFailed

\* lines 25-37 and 66: the timer of withTimeout rejects the session lookup
SessionTimesOut ==
    /\ initPc = "getSession"
    /\ Due(SessionTimeout)
    /\ UNCHANGED notAuth
    /\ InitFailed

\* lines 39-55, 74 and 85-87: the role check initializeAuth awaits ends, by
\* an answer, a rejection or its timeout; then the finally block runs
InitRoleEnds(admin) ==
    /\ initPc' = "finished"
    /\ roleCheck' = NoRoleCheck
    /\ IF mounted
       THEN isAdmin' = admin /\ isLoading' = FALSE
       ELSE UNCHANGED <<isAdmin, isLoading>>
    /\ UNCHANGED <<mounted, authSession, user, safety, roleChecks, now>>

RoleResolves ==
    /\ initPc = "roleCheck"
    /\ UNCHANGED notAuth
    /\ \E answered \in BOOLEAN :
         InitRoleEnds(FoundAdmin(roleCheck.userId, answered))

RoleTimesOut ==
    /\ initPc = "roleCheck"
    /\ Due(roleCheck.deadline)
    /\ UNCHANGED notAuth
    /\ InitRoleEnds(FALSE)

\* lines 58-60: the safety timer fires
SafetyFires ==
    /\ safety
    /\ Due(SafetyDelay)
    /\ safety' = FALSE
    /\ isLoading' = IF mounted THEN FALSE ELSE isLoading
    /\ UNCHANGED <<mounted, isAdmin, authSession, user, initPc, roleCheck,
                   roleChecks, now>>
    /\ UNCHANGED notAuth

\* lines 93-103: the listener of onAuthStateChange
AuthStateChange ==
    /\ mounted
    /\ Cardinality(roleChecks) < MaxRoleChecks
    /\ UNCHANGED notAuth
    /\ UNCHANGED <<mounted, isLoading, initPc, roleCheck, safety, now>>
    /\ \E s \in AuthSessions :
         /\ authSession' = s
         /\ user' = s
         /\ IF s # NULL
            THEN /\ roleChecks' = roleChecks \cup
                       {[userId |-> s, deadline |-> now + RoleTimeout]}
                 /\ UNCHANGED isAdmin
            ELSE /\ isAdmin' = FALSE
                 /\ UNCHANGED roleChecks

\* lines 39-55 and 99: a role check the listener started ends
ListenerRoleEnds(check, admin) ==
    /\ roleChecks' = roleChecks \ {check}
    /\ isAdmin' = IF mounted THEN admin ELSE isAdmin
    /\ UNCHANGED <<mounted, isLoading, authSession, user, initPc, roleCheck,
                   safety, now>>

ListenerRoleResolves ==
    /\ UNCHANGED notAuth
    /\ \E check \in roleChecks, answered \in BOOLEAN :
         ListenerRoleEnds(check, FoundAdmin(check.userId, answered))

ListenerRoleTimesOut ==
    /\ UNCHANGED notAuth
    /\ \E check \in roleChecks :
         /\ Due(check.deadline)
         /\ ListenerRoleEnds(check, FALSE)

\* lines 120-125
signOut ==
    /\ mounted
    /\ authSession # NULL
    /\ authSession' = NULL
    /\ user' = NULL
    /\ isAdmin' = FALSE
    /\ UNCHANGED <<mounted, isLoading, initPc, roleCheck, safety, roleChecks,
                   now>>
    /\ UNCHANGED notAuth

\* lines 105-109: the cleanup of the effect
Unmount ==
    /\ mounted
    /\ mounted' = FALSE
    /\ safety' = FALSE
    /\ UNCHANGED <<isLoading, isAdmin, authSession, user, initPc, roleCheck,
                   roleChecks, now>>
    /\ UNCHANGED notAuth

\* a timer whose delay has passed and whose callback has not run
TimerDue ==
    \/ safety /\ Due(SafetyDelay)
    \/ initPc = "getSession" /\ Due(SessionTimeout)
    \/ initPc = "roleCheck" /\ Due(roleCheck.deadline)
    \/ \E check \in roleChecks : Due(check.deadline)

\* a second passes; due callbacks run first
Tick ==
    /\ now < MaxNow
    /\ ~TimerDue
    /\ now' = now + 1
    /\ UNCHANGED <<mounted, isLoading, isAdmin, authSession, user, initPc,
                   roleCheck, safety, roleChecks>>
    /\ UNCHANGED notAuth

\* before the effect runs
AuthIdle ==
    /\ mounted = FALSE
    /\ isLoading = TRUE
    /\ isAdmin = FALSE
    /\ authSession = NULL
    /\ user = NULL
    /\ initPc = "idle"
    /\ roleCheck = NoRoleCheck
    /\ safety = FALSE
    /\ roleChecks = {}
    /\ now = 0

\* lines 17-23, 58-60 and 90: the effect ran: the safety timer is set and
\* initializeAuth awaits the session lookup
AuthInit ==
    /\ mounted = TRUE
    /\ isLoading = TRUE
    /\ isAdmin = FALSE
    /\ authSession = NULL
    /\ user = NULL
    /\ initPc = "getSession"
    /\ roleCheck = NoRoleCheck
    /\ safety = TRUE
    /\ roleChecks = {}
    /\ now = 0

AuthNext ==
    \/ SessionResolves
    \/ SessionRejects
    \/ SessionTimesOut
    \/ RoleResolves
    \/ RoleTimesOut
    \/ SafetyFires
    \/ AuthStateChange
    \/ ListenerRoleResolves
    \/ ListenerRoleTimesOut
    \/ signOut
    \/ Unmount
    \/ Tick
-----------------------------------------------------------------------------
(* The enrich function run against the leads of the store *)

\* what the AI gateway returns as the arguments of extract_business_data:
\* every field optional
Extractions ==
    {[industry |-> NULL, phone |-> NULL, summary |-> NULL],
     [industry |-> NULL, phone |-> NULL, summary |-> "Sells shoes"],
     [industry |-> "Retail", phone |-> NULL, summary |-> ""],
     [industry |-> NULL, phone |-> "555-000-1111", summary |-> "Sells shoes"],
     [industry |-> "Retail", phone |-> "555-000-1111",
      summary |-> "Sells shoes"]}

\* let extracted = {}
NoExtraction == [industry |-> NULL, phone |-> NULL, summary |-> NULL]

\* the JSON object found in the message content: none, or one that names
\* the industry
ContentExtractions ==
    {<<>>, <<[industry |-> "Retail", phone |-> NULL, summary |-> NULL]>>}

\* lines 139-163: the arguments of the tool call, replaced by the JSON of the
\* message content when they hold neither industry nor phone
extractedOf(toolCall, content) ==
    IF Falsy(toolCall.industry) /\ Falsy(toolCall.phone) /\ content # <<>>
    THEN content[1]
    ELSE toolCall

updatesOfPresent(extracted) ==
    [industry |-> IF extracted.industry # NULL
                  THEN <<extracted.industry>> ELSE <<>>,
     phone    |-> IF extracted.phone # NULL
                  THEN <<extracted.phone>> ELSE <<>>,
     notes    |-> IF extracted.summary # NULL
                  THEN <<extracted.summary>> ELSE <<>>]

\* lines 168-171: const updates = {}; if (extracted.industry) ...; a key of
\* `updates` is <<value>> when set and <<>> when not
updates(extracted) ==
    [industry |-> IF ~Falsy(extracted.industry)
                  THEN <<extracted.industry>> ELSE <<>>,
     phone    |-> IF ~Falsy(extracted.phone)
                  THEN <<extracted.phone>> ELSE <<>>,
     notes    |-> IF ~Falsy(extracted.summary)
                  THEN <<extracted.summary>> ELSE <<>>]

\* Object.keys(updates)
Keys(u) == {k \in {"industry", "phone", "notes"} : u[k] # <<>>}

\* .update(updates) on one row
Enriched(l, u) ==
    [l EXCEPT !.industry = IF u.industry # <<>> THEN u.industry[1] ELSE @,
              !.phone    = IF u.phone # <<>> THEN u.phone[1] ELSE @,
              !.notes    = IF u.notes # <<>> THEN u.notes[1] ELSE @]

\* Dashboard.tsx lines 22-26: .not('website', 'is', null).is('industry', null)
LeadsToEnrich == {l \in leads : l.website # NULL /\ l.industry = NULL}

NoEnrichRun == [leadId |-> NULL, extracted |-> NoExtraction, keys |-> {},
                status |-> "none", success |-> "none"]

EnrichAnswer(leadId, extracted, keys, status, success) ==
    enrichRun' = [leadId |-> leadId, extracted |-> extracted, keys |-> keys,
                  status |-> status, success |-> success]

\* Dashboard.tsx lines 39-43 and enrich-lead lines 53-185: the dashboard
\* invokes the function for a lead of its query, as the signed-in admin; the
\* function scrapes the site, asks the gateway for the fields and updates
\* the row; it runs between two chat requests
EnrichLead ==
    /\ \A p \in Procs : Idle(p)
    /\ UNCHANGED <<started, pc, req, existingLead, outcome, sent, failed,
                   lookupsOk, forwarded, aiResult, response>>
    /\ UNCHANGED <<fnVars, rlsVars, scoreVars, groupVars, csvVars, streamVars,
                   authVars, tabVars>>
    /\ \E l \in LeadsToEnrich :
         \/ \E scrapeRes \in ScrapeOutcomes \ {"content"} :
               /\ EnrichAnswer(l.id, NoExtraction, {},
                               IF scrapeRes = "throw" THEN "500" ELSE "200",
                               IF scrapeRes = "throw" THEN "absent" ELSE "false")
               /\ UNCHANGED leads
         \* the gateway cannot be reached, or its answer is not JSON
         \/ /\ EnrichAnswer(l.id, NoExtraction, {}, "500", "absent")
            /\ UNCHANGED leads
         \/ \E toolCall \in Extractions, content \in ContentExtractions,
               stored \in BOOLEAN :
               LET extracted == extractedOf(toolCall, content)
                   u         == updates(extracted)
               IN  IF Keys(u) # {} /\ ~stored
                   THEN /\ EnrichAnswer(l.id, extracted, Keys(u), "500", "false")
                        /\ UNCHANGED leads
                   ELSE /\ EnrichAnswer(l.id, extracted, Keys(u), "200", "true")
                        /\ leads' = (leads \ {l}) \cup {Enriched(l, u)}

EnrichIdle == enrichRun = NoEnrichRun
-----------------------------------------------------------------------------
(* The leads tab of the dashboard: filter, selection and bulk actions *)

LeadIds == {"l1", "l2", "l3"}

\* the values of the filter tabs the model uses
SourceFilters == {"all", "hero_modal", "chatbot", "archived"}

\* the leads the table holds when the tab opens
InitialLeads ==
    {[id |-> "l1", source |-> "hero_modal", archived |-> FALSE],
     [id |-> "l2", source |-> "chatbot", archived |-> FALSE],
     [id |-> "l3", source |-> "hero_modal", archived |-> TRUE]}

NoMutation == [kind |-> "none", leadIds |-> {}, phase |-> "none"]

\* lines 226-238
filteredLeads ==
    IF sourceFilter = "archived"
    THEN {l \in leadsData : l.archived}
    ELSE IF sourceFilter = "all"
    THEN {l \in leadsData : ~l.archived}
    ELSE {l \in leadsData : ~l.archived /\ l.source = sourceFilter}

\* filteredLeads.map((l) => l.id)
Displayed == {l.id : l \in filteredLeads}

\* line 310
isViewingArchived == sourceFilter = "archived"

\* line 312
someSelected == selectedLeads # {}

\* lines 129-140 and 142-155: the query runs again after an invalidation
RefetchLeads ==
    /\ leadsStale
    /\ leadsData' = leadTable
    /\ leadsStale' = FALSE
    /\ UNCHANGED <<leadTable, sourceFilter, selectedLeads, mutation>>
    /\ UNCHANGED notTab

\* lines 240-248, with the header checkbox checked or not
handleSelectAll ==
    /\ \E checked \in BOOLEAN :
         selectedLeads' = IF checked THEN Displayed ELSE {}
    /\ UNCHANGED <<leadTable, leadsData, leadsStale, sourceFilter, mutation>>
    /\ UNCHANGED notTab

\* lines 250-260, from the checkbox of a displayed row (lines 438-444)
handleSelectLead ==
    /\ \E leadId \in Displayed, checked \in BOOLEAN :
         selectedLeads' = IF checked THEN selectedLeads \cup {leadId}
                          ELSE selectedLeads \ {leadId}
    /\ UNCHANGED <<leadTable, leadsData, leadsStale, sourceFilter, mutation>>
    /\ UNCHANGED notTab

\* line 347: onValueChange of the filter tabs
FilterChange ==
    /\ \E v \in SourceFilters :
         /\ v # sourceFilter
         /\ sourceFilter' = v
    /\ selectedLeads' = {}
    /\ UNCHANGED <<leadTable, leadsData, leadsStale, mutation>>
    /\ UNCHANGED notTab

\* mutation.mutate(Array.from(selectedLeads))
Mutate(kind) ==
    /\ mutation = NoMutation
    /\ mutation' = [kind |-> kind, leadIds |-> selectedLeads, phase |-> "sent"]
    /\ UNCHANGED <<leadTable, leadsData, leadsStale, sourceFilter,
                   selectedLeads>>
    /\ UNCHANGED notTab

\* lines 262-264, from the Archive button (lines 361-386)
handleArchive ==
    /\ someSelected
    /\ ~isViewingArchived
    /\ Mutate("archive")

\* lines 266-268, from the Restore button
handleUnarchive ==
    /\ someSelected
    /\ isViewingArchived
    /\ Mutate("unarchive")

\* lines 270-272, from the dialog the Delete button opens
handleDelete ==
    /\ someSelected
    /\ Mutate("delete")

\* .update({ archived }).in('id', leadIds) or .delete().in('id', leadIds)
Mutated(kind, leadIds) ==
    CASE kind = "delete" -> {l \in leadTable : l.id \notin leadIds}
      [] OTHER ->
           {IF l.id \in leadIds
            THEN [l EXCEPT !.archived = (kind = "archive")] ELSE l :
               l \in leadTable}

\* lines 158-165, 176-183, 194-201: the mutationFn; a change of the table is
\* notified to the realtime channel (lines 142-155), which invalidates the
\* query
MutationRuns ==
    /\ mutation.phase = "sent"
    /\ \E ok \in BOOLEAN :
         IF ok
         THEN /\ leadTable' = Mutated(mutation.kind, mutation.leadIds)
              /\ leadsStale' = (leadsStale \/ leadTable' # leadTable)
              /\ mutation' = [mutation EXCEPT !.phase = "applied"]
         ELSE /\ mutation' = [mutation EXCEPT !.phase = "failed"]
              /\ UNCHANGED <<leadTable, leadsStale>>
    /\ UNCHANGED <<leadsData, sourceFilter, selectedLeads>>
    /\ UNCHANGED notTab

\* lines 166-173, 184-191, 202-210: onSuccess or onError
MutationSettles ==
    /\ mutation.phase \in {"applied", "failed"}
    /\ mutation' = NoMutation
    /\ IF mutation.phase = "applied"
       THEN /\ leadsStale' = TRUE
            /\ selectedLeads' = {}
       ELSE UNCHANGED <<leadsStale, selectedLeads>>
    /\ UNCHANGED <<leadTable, leadsData, sourceFilter>>
    /\ UNCHANGED notTab

\* another session of the dashboard archives, restores or deletes a lead;
\* the realtime channel (lines 142-155) invalidates the query
OtherSessionChanges ==
    /\ \E l \in leadTable, kind \in {"archive", "unarchive", "delete"} :
         /\ leadTable' = Mutated(kind, {l.id})
         /\ leadTable' # leadTable
    /\ leadsStale' = TRUE
    /\ UNCHANGED <<leadsData, sourceFilter, selectedLeads, mutation>>
    /\ UNCHANGED notTab

TabIdle ==
    /\ leadTable = {}
    /\ leadsData = {}
    /\ leadsStale = FALSE
    /\ sourceFilter = "all"
    /\ selectedLeads = {}
    /\ mutation = NoMutation

\* the tab mounted and its query answered
TabInit ==
    /\ leadTable = InitialLeads
    /\ leadsData = InitialLeads
    /\ leadsStale = FALSE
    /\ sourceFilter = "all"
    /\ selectedLeads = {}
    /\ mutation = NoMutation

TabNext ==
    \/ RefetchLeads
    \/ handleSelectAll
    \/ handleSelectLead
    \/ FilterChange
    \/ handleArchive
    \/ handleUnarchive
    \/ handleDelete
    \/ MutationRuns
    \/ MutationSettles
    \/ OtherSessionChanges
\* a request that arrives while no other invocation is in flight
StartAlone(p) ==
    /\ \A q \in Procs : Idle(q)
    /\ Start(p)

Init ==
    /\ CaptureInit
    /\ FnInit
    /\ RlsInit
    /\ ScoreIdle
    /\ GroupInit
    /\ CsvIdle
    /\ StreamIdle
    /\ AuthIdle
    /\ TabIdle
    /\ EnrichIdle

Next ==
    \E p \in Procs :
        \/ Start(p)
        \/ LookupEmail(p)
        \/ LookupSession(p)
        \/ Update(p)
        \/ Insert(p)
        \/ Respond(p)
        \/ NotificationFails(p)

\* chat requests of any sessions, overlapping freely
Spec == Init /\ [][Next]_vars

SeqNext ==
    \E p \in Procs :
        \/ StartAlone(p)
        \/ LookupEmail(p)
        \/ LookupSession(p)
        \/ Update(p)
        \/ Insert(p)
        \/ Respond(p)
        \/ NotificationFails(p)

\* chat requests handled one after the other
SeqSpec == Init /\ [][SeqNext]_vars


\* requests to the scrape, enrich and webhook-forward functions
FnSpec == Init /\ [][FnNext]_vars

\* commands of data API callers against the tables under row-level security
RlsSpec == Init /\ [][RlsNext]_vars

ScoreStart ==
    /\ CaptureInit
    /\ FnInit
    /\ RlsInit
    /\ ScoreInit
    /\ GroupInit
    /\ CsvIdle
    /\ StreamIdle
    /\ AuthIdle
    /\ TabIdle
    /\ EnrichIdle

\* every feature record and every stored score, scored and badged
ScoreSpec == ScoreStart /\ [][ScoreNext]_vars

\* the conversations tab over a growing table of chat interactions
GroupSpec == Init /\ [][GroupNext]_vars

CsvStart ==
    /\ CaptureInit
    /\ FnInit
    /\ RlsInit
    /\ ScoreIdle
    /\ GroupInit
    /\ CsvInit
    /\ StreamIdle
    /\ AuthIdle
    /\ TabIdle
    /\ EnrichIdle

\* every lead list of the model, exported from either tab
CsvSpec == CsvStart /\ [][CsvNext]_vars

StreamStart ==
    /\ CaptureInit
    /\ FnInit
    /\ RlsInit
    /\ ScoreIdle
    /\ GroupInit
    /\ CsvIdle
    /\ StreamInit
    /\ AuthIdle
    /\ TabIdle
    /\ EnrichIdle

\* every body of the model, delivered in every chunking
StreamSpec == StreamStart /\ [][StreamNext]_vars

AuthStart ==
    /\ CaptureInit
    /\ FnInit
    /\ RlsInit
    /\ ScoreIdle
    /\ GroupInit
    /\ CsvIdle
    /\ StreamIdle
    /\ AuthInit
    /\ TabIdle
    /\ EnrichIdle

\* the mounted AuthProvider: time passes and the callbacks of due timers
\* run; whether and when the session lookup and the role checks answer is
\* left open
AuthSpec ==
    /\ AuthStart
    /\ [][AuthNext]_vars
    /\ WF_vars(Tick)
    /\ WF_vars(SafetyFires)
    /\ WF_vars(SessionTimesOut)
    /\ WF_vars(RoleTimesOut)
    /\ WF_vars(ListenerRoleTimesOut)

EnrichNext ==
    \/ EnrichLead
    \/ \E p \in Procs :
        \/ StartAlone(p)
        \/ LookupEmail(p)
        \/ LookupSession(p)
        \/ Update(p)
        \/ Insert(p)
        \/ Respond(p)
        \/ NotificationFails(p)

\* chat requests handled one after the other, with runs of the dashboard's
\* lead enrichment between their steps
EnrichSpec == Init /\ [][EnrichNext]_vars

TabStart ==
    /\ CaptureInit
    /\ FnInit
    /\ RlsInit
    /\ ScoreIdle
    /\ GroupInit
    /\ CsvIdle
    /\ StreamIdle
    /\ AuthIdle
    /\ EnrichIdle
    /\ TabInit

\* the leads tab in use while another session changes the leads
TabSpec == TabStart /\ [][TabNext]_vars
-----------------------------------------------------------------------------
(* Properties of the lead capture *)

LeadsWithEmail(email) == {l \in leads : l.email = email}

Row(id) == CHOOSE l \in leads : l.id = id

\* the invocation found a lead (existingLead is not null)
Found(p) == existingLead[p].id # NULL

C2_RaceResolvedByConstraint ==
    /\ \A l1 \in leads, l2 \in leads : l1.email = l2.email => l1 = l2
    /\ \A p \in Procs :
         outcome[p] = "insertRejected" =>
             /\ sent[p] = {}
             /\ pc[p] \in {"ai", "done"}
             /\ pc[p] = "done" =>
                    forwarded[p] /\ response[p] = AiResponse(aiResult[p])

\* C2 witness: two overlapping invocations of one session with the same
\* detected email (or both with none) both read "no lead found"; one insert
\* succeeded and the other was rejected.
C2_Witness ==
    \E p \in Procs, q \in Procs :
        /\ p # q
        /\ pc[p] = "ai" /\ pc[q] = "ai"
        /\ req[p].sessionId = req[q].sessionId
        /\ req[p].email = req[q].email
        /\ lookupsOk[p] /\ lookupsOk[q]
        /\ ~Found(p) /\ ~Found(q)
        /\ outcome[p] = "insertRejected"
        /\ outcome[q] = "inserted"

IsPlaceholder(email) ==
    \E s \in Sessions : email = "pending_" \o s \o "@chatbot.temp"

\* the invocation detected a real email no other lead holds, found the lead
\* of its session still under the placeholder email, and its update succeeded
ReconcilesPlaceholder(p) ==
    /\ pc[p] = "ai"
    /\ outcome[p] = "updated"
    /\ lookupsOk[p]
    /\ req[p].email # NULL
    /\ Found(p)
    /\ IsPlaceholder(existingLead[p].email)
    /\ Row(existingLead[p].id) \in SessionRows(req[p].sessionId)
    /\ \A l \in leads : l.id # existingLead[p].id => l.email # req[p].email

\* C17: when a lead was created for a session under the placeholder email
\* and a later invocation of the same session detects a real email that no
\* other lead holds, then after that invocation the lead found by the
\* session key carries the real email instead of the placeholder.
C17_PlaceholderReplaced ==
    \A p \in Procs :
        ReconcilesPlaceholder(p) =>
            LookupBySession(req[p].sessionId).email = req[p].email

\* what happens instead: the update went through and the lead of the session
\* still carries the placeholder
PlaceholderKept ==
    \E p \in Procs :
        /\ ReconcilesPlaceholder(p)
        /\ IsPlaceholder(LookupBySession(req[p].sessionId).email)

\* the invocation whose step this is leaves the update branch
Updates(p) == pc[p] = "update" /\ pc'[p] = "ai"

\* the invocation whose step this is leaves the insert branch
Inserts(p) == pc[p] = "insert" /\ pc'[p] = "ai"

\* C18 as stated: an invocation for one session never modifies a lead that
\* a different session created, in every interleaving: every row that
\* changes carries the session note of the invocation that changes it.
C18_SessionsIndependent ==
    [][\A l \in leads : \A m \in leads' :
          (m.id = l.id /\ m # l) =>
              \E p \in Procs : /\ Updates(p)
                               /\ existingLead[p].id = l.id
                               /\ l.notes = SessionNote(req[p].sessionId)]_vars

\* C18 (amended): in every interleaving, a row that changes is changed by an
\* invocation that found it, and it carries the session note of that
\* invocation or holds the email that invocation detected; a row that
\* appears carries the session note of the invocation that inserted it.
C18_OwnSessionOrSameEmail ==
    [][/\ \A l \in leads : \A m \in leads' :
            (m.id = l.id /\ m # l) =>
                \E p \in Procs :
                    /\ Updates(p)
                    /\ existingLead[p].id = l.id
                    /\ \/ l.notes = SessionNote(req[p].sessionId)
                       \/ l.email = req[p].email
       /\ \A m \in leads' :
            (\A l \in leads : l.id # m.id) =>
                \E p \in Procs : /\ Inserts(p)
                                 /\ m.notes = SessionNote(req[p].sessionId)
       /\ \A l \in leads : \E m \in leads' : m.id = l.id]_vars

\* C18 witness: an invocation of one session updated the lead another
\* session had created, found by the email both detected.
C18_Witness ==
    \E p \in Procs :
        /\ pc[p] = "ai"
        /\ outcome[p] = "updated"
        /\ Row(existingLead[p].id).notes # SessionNote(req[p].sessionId)
        /\ Row(existingLead[p].id).email = req[p].email

\* the invocation is in the capture block
Capturing(p) == pc[p] \in {"lookupEmail", "lookupSession", "update", "insert"}

\* C19: an invocation in which no name candidate is detected looks no lead
\* up, inserts and updates none and sends no webhook or enrichment
\* notification, whatever else was detected; it goes on to the AI responder.
C19_NoNameNoCapture ==
    /\ [](\A p \in Procs :
            /\ Capturing(p) => req[p].name # NULL
            /\ (pc[p] = "ai" /\ req[p].name = NULL) => outcome[p] = "skipped"
            /\ outcome[p] = "skipped" =>
                  /\ pc[p] \in {"ai", "done"}
                  /\ ~Found(p)
                  /\ sent[p] = {}
                  /\ pc[p] = "done" => forwarded[p])
    /\ [][\A p \in Procs :
            (pc'[p] # pc[p] /\ outcome'[p] = "skipped") => leads' = leads]_vars

\* C19 witness: with a lead in the store, an invocation of its session
\* detected an email, a website and a phone but no name, and was forwarded
\* to the AI responder without touching the store.
C19_Witness ==
    \E p \in Procs :
        /\ pc[p] = "ai"
        /\ outcome[p] = "skipped"
        /\ req[p].name = NULL
        /\ req[p].email # NULL /\ req[p].website # NULL /\ req[p].phone # NULL
        /\ SessionRows(req[p].sessionId) # {}

\* C20: a successful insert of a new lead notifies the webhook forwarder
\* and, exactly when a website was detected, the enrichment trigger; a
\* failed insert notifies neither; the notifications are not awaited, and a
\* failure of one changes neither the store nor the position, the outcome
\* or the response of any invocation.
C20_InsertNotifies ==
    /\ [](\A p \in Procs :
            /\ (pc[p] = "ai" /\ outcome[p] = "inserted") =>
                  /\ "webhook" \in sent[p]
                  /\ "enrich" \in sent[p] <=> req[p].website # NULL
                  /\ \E l \in leads : l.id = NewId(placeholderEmail(req[p]))
            /\ outcome[p] \in {"insertError", "insertRejected"} =>
                  sent[p] = {}
            /\ failed[p] \subseteq sent[p])
    /\ [][\A p \in Procs :
            failed'[p] \ failed[p] # {} =>
                /\ leads' = leads
                /\ pc' = pc
                /\ outcome' = outcome
                /\ forwarded' = forwarded
                /\ response' = response]_vars

\* C20 witness: the insert succeeded, both notifications failed, and the
\* lead is in the store while the invocation goes on to the AI responder.
C20_Witness ==
    \E p \in Procs :
        /\ pc[p] = "ai"
        /\ outcome[p] = "inserted"
        /\ sent[p] = {"webhook", "enrich"}
        /\ failed[p] = sent[p]
        /\ \E l \in leads : l.id = NewId(placeholderEmail(req[p]))

\* the response was streamed before either notification failed
AnsweredBeforeNotified ==
    \E p \in Procs :
        /\ pc[p] = "done"
        /\ outcome[p] = "inserted"
        /\ response[p] = "stream"
        /\ sent[p] # {}
        /\ failed[p] = {}

\* the row the update of this step is applied to, before and after
RowAfter(id) == CHOOSE m \in leads' : m.id = id

\* the update of the invocation whose step this is went through
Updating(p) == Updates(p) /\ outcome'[p] = "updated"

\* the attributes the update branch never writes
SameIdentity(l, m) ==
    /\ m.full_name = l.full_name
    /\ m.source = l.source
    /\ m.notes = l.notes

C22_StatusFollowsScore ==
    \A l \in leads :
        l.qualification_status = getQualificationStatus(l.lead_score)

\* what the store holds instead: a lead whose score makes it hot, under the
\* status the column defaults to
HotLeadStoredCool ==
    \E l \in leads :
        /\ getQualificationStatus(l.lead_score) = "hot"
        /\ l.qualification_status = "cool"

\* the invocation has scanned its request
Scanned(p) == pc[p] \notin {"idle", "done"}

\* C23: the capture-time score is 20 for a name, plus 30 for an email, plus
\* 25 for a website, plus 15 for a phone; the capture rule acts only with a
\* name, so every lead_score in the store is one of 20, 35, 45, 50, 60, 65,
\* 75, 90.
C23_CaptureScoreAdditive ==
    /\ \A p \in Procs :
         Scanned(p) =>
            req[p].leadScore =
                (IF req[p].name # NULL THEN 20 ELSE 0)
                + (IF req[p].email # NULL THEN 30 ELSE 0)
                + (IF req[p].website # NULL THEN 25 ELSE 0)
                + (IF req[p].phone # NULL THEN 15 ELSE 0)
    /\ \A l \in leads : l.lead_score \in {20, 35, 45, 50, 60, 65, 75, 90}

\* C23 witness: a lead was first stored with the name alone and an update
\* of an invocation that detected all four signals raised it to 90.
C23_Witness ==
    \E p \in Procs :
        /\ pc[p] = "ai"
        /\ outcome[p] = "updated"
        /\ existingLead[p].lead_score = 20
        /\ req[p].leadScore = 90
        /\ Row(existingLead[p].id).lead_score = 90
-----------------------------------------------------------------------------
(* Properties of the edge functions *)

\* the request carries the configured internal secret
CarriesSecret(r) ==
    r.secret # NULL /\ r.expected # NULL /\ r.secret = r.expected

\* the request carries the token of a user who has an admin role row
CarriesAdminToken(r) ==
    /\ r.authorization = "Bearer jwt-admin"
    /\ [user_id |-> "u-admin", role |-> "admin"] \in user_roles

\* the request carries the token of some user
CarriesUserToken(r) ==
    r.authorization \in {"Bearer jwt-admin", "Bearer jwt-user"}

Unauthorized(r) ==
    /\ r.fn \in Functions
    /\ r.method = "POST"
    /\ ~CarriesSecret(r)
    /\ ~CarriesAdminToken(r)

\* C5: for the scrape, enrich and webhook-forward handlers, a request with
\* neither the matching internal secret nor the credential of an admin user
\* triggers no side effect and is answered 401 (credential missing or
\* invalid) or 403 (user without the admin role)
C5_UnauthorizedNoSideEffect ==
    Unauthorized(fnReq) =>
        /\ fnEffects = {}
        /\ fnPc = "done" =>
              \/ fnStatus = "401"
              \/ fnStatus = "403" /\ CarriesUserToken(fnReq)

\* the same statement for the two handlers that call verifyAuthorization
GatedUnauthorizedNoSideEffect ==
    (Unauthorized(fnReq) /\ fnReq.fn \in Gated) =>
        /\ fnEffects = {}
        /\ fnPc \in {"claims", "roles", "done"}
        /\ fnPc = "done" =>
              \/ fnStatus = "401"
              \/ fnStatus = "403" /\ CarriesUserToken(fnReq)

GatedUnauthorizedRejected ==
    /\ Unauthorized(fnReq)
    /\ fnReq.fn = "enrich-lead"
    /\ fnReq.secret = "guess"
    /\ fnReq.authorization = "Bearer jwt-user"
    /\ fnPc = "done"
    /\ fnStatus = "403"

\* C6: verifyAuthorization authorizes through the internal-secret path only
\* when the header is present, INTERNAL_SECRET is configured and the two are
\* equal; otherwise the request is authorized only if its bearer token
\* belongs to a user with an admin role row
C6_SecretOrAdmin ==
    (fnReq.fn \in Gated /\ fnReq.method = "POST") =>
        /\ fnAuth = "authorized" =>
              \/ CarriesSecret(fnReq) /\ fnUser = NULL
              \/ /\ ~CarriesSecret(fnReq)
                 /\ CarriesAdminToken(fnReq)
                 /\ fnUser # NULL
                 /\ [user_id |-> fnUser, role |-> "admin"] \in user_roles
        /\ CarriesSecret(fnReq) => fnAuth = "authorized"
        /\ fnPc \in {"body", "enrichAi", "enrichUpdate"} => fnAuth = "authorized"
        /\ fnEffects # {} => fnAuth = "authorized"

\* a mismatching secret with an admin token is let in as the admin
C6_Witness ==
    /\ fnReq.fn \in Gated
    /\ fnReq.secret = "guess"
    /\ fnReq.expected = "s3cret"
    /\ fnReq.authorization = "Bearer jwt-admin"
    /\ fnAuth = "authorized"
    /\ fnUser = "u-admin"
    /\ fnEffects # {}

\* the scraping call or the AI-completion call of the enrich handler failed:
\* no content, an error status, or a thrown error
EnrichCallFailed ==
    /\ fnReq.fn = "enrich-lead"
    /\ \/ fnOutcomes.scrape \in {"empty", "notOk", "throw"}
       \/ fnOutcomes.ai \in {"notOk", "throw"}

\* C14: in the enrich handler, whenever the scraping call or the
\* AI-completion call fails, the response carries success: false with an
\* error message and no update of the lead is issued
C14_EnrichFailureIsSoft ==
    EnrichCallFailed =>
        /\ "leadUpdate" \notin fnEffects
        /\ fnPc = "done"
        /\ fnSuccess = "false"

\* the part of it about the lead: a failed call never leads to an update
EnrichFailureLeavesLead ==
    EnrichCallFailed =>
        /\ "leadUpdate" \notin fnEffects
        /\ fnPc = "done"

EnrichAiRejected ==
    /\ EnrichCallFailed
    /\ fnOutcomes.ai = "notOk"
    /\ fnStatus = "200"
    /\ fnSuccess = "true"
-----------------------------------------------------------------------------
(* Properties of the row-level policies *)

\* the last command read, changed or removed at least one row
Succeeded == lastOp.result = "ok" /\ lastOp.rows > 0

ByAdmin ==
    /\ lastOp.role = "authenticated"
    /\ [user_id |-> lastOp.uid, role |-> "admin"] \in user_roles

\* an anon insert that asks for nothing back always lands
AnonCanInsert ==
    (lastOp.role = "anon" /\ lastOp.cmd = "INSERT" /\ ~lastOp.reads) =>
        lastOp.result \in {"ok", "full"}

-----------------------------------------------------------------------------
(* Properties of lead scoring *)

Statuses == {"hot", "warm", "cool", "cold"}

\* C8: calculateLeadScore is never negative, and getQualificationStatus maps
\* every score to exactly one status: hot from 70, warm from 40 to 69, cool
\* from 20 to 39, cold below 20
C8_ScoreBoundsAndStatus ==
    /\ (scoreInput # NoInput /\ scored # Absent) => scored[1] >= 0
    /\ badge # NULL =>
          /\ badge \in Statuses
          /\ badge = "hot"  <=> scored[1] >= 70
          /\ badge = "warm" <=> (40 <= scored[1] /\ scored[1] < 70)
          /\ badge = "cool" <=> (20 <= scored[1] /\ scored[1] < 40)
          /\ badge = "cold" <=> scored[1] < 20

\* a stored score of exactly 70 is badged hot
C8_Witness ==
    /\ scored = <<70>>
    /\ badge = "hot"

\* the contribution of an optional flag
Points(flag, points) == IF flag = <<TRUE>> THEN points ELSE 0

\* the bracket of a message count
Bracket(n) ==
    IF n >= 11 THEN 35
    ELSE IF n \in 7..10 THEN 25
    ELSE IF n \in 4..6 THEN 15
    ELSE IF n \in 2..3 THEN 5
    ELSE 0

\* the base score of a source
Base(source) ==
    IF source = "project_plan_modal" THEN 30
    ELSE IF source = "chatbot_with_url" THEN 25
    ELSE IF source \in {"use_case_page", "real_estate", "professional_services",
                        "home_services", "education"} THEN 20
    ELSE IF source = "chatbot" THEN 15
    ELSE IF source = "hero_modal" THEN 10
    ELSE 0

\* a flag of the intent signals, absent when the signals are
FlagOf(signals, flag) ==
    IF signals = Absent THEN Absent ELSE signals[1][flag]

\* the input with every absent field or flag written out as 0 or false
Explicit(input) ==
    LET Written(flag) == IF flag = Absent THEN <<FALSE>> ELSE flag
    IN  [source |-> input.source,
         messageCount |->
            IF input.messageCount = Absent THEN <<0>> ELSE input.messageCount,
         intentSignals |->
            << [pricing |-> Written(FlagOf(input.intentSignals, "pricing")),
                timeline |-> Written(FlagOf(input.intentSignals, "timeline")),
                specificService |->
                    Written(FlagOf(input.intentSignals, "specificService")),
                urgency |-> Written(FlagOf(input.intentSignals, "urgency"))] >>,
         hasWebsite |-> Written(input.hasWebsite),
         hasAiFeedback |-> Written(input.hasAiFeedback)]

ProjectPlanExample ==
    [source |-> "project_plan_modal", messageCount |-> <<8>>,
     intentSignals |-> << [pricing |-> <<TRUE>>, timeline |-> Absent,
                           specificService |-> Absent,
                           urgency |-> <<TRUE>>] >>,
     hasWebsite |-> <<TRUE>>, hasAiFeedback |-> Absent]

HeroModalExample ==
    [source |-> "hero_modal", messageCount |-> <<1>>,
     intentSignals |-> Absent, hasWebsite |-> Absent, hasAiFeedback |-> Absent]

\* C9: calculateLeadScore is the sum of the source's base score, one
\* engagement bracket, the points of each true intent flag, 10 for a website
\* and 10 for AI feedback; an absent field counts as an explicit false or 0;
\* the project-plan example scores 90 (hot), the hero-modal example 10 (cold)
C9_ScoreIsAdditive ==
    (scoreInput # NoInput /\ scored # Absent) =>
        /\ scored[1] =
              Base(scoreInput.source)
              + Bracket(IF scoreInput.messageCount = Absent THEN 0
                        ELSE scoreInput.messageCount[1])
              + Points(FlagOf(scoreInput.intentSignals, "pricing"), 15)
              + Points(FlagOf(scoreInput.intentSignals, "timeline"), 15)
              + Points(FlagOf(scoreInput.intentSignals, "specificService"), 10)
              + Points(FlagOf(scoreInput.intentSignals, "urgency"), 10)
              + Points(scoreInput.hasWebsite, 10)
              + Points(scoreInput.hasAiFeedback, 10)
        /\ scored[1] = calculateLeadScore(Explicit(scoreInput))
        /\ scoreInput = ProjectPlanExample =>
              scored = <<90>> /\ badge \in {NULL, "hot"}
        /\ scoreInput = HeroModalExample =>
              scored = <<10>> /\ badge \in {NULL, "cold"}

\* the project-plan example, scored and badged
C9_Witness ==
    /\ scoreInput = ProjectPlanExample
    /\ scored = <<90>>
    /\ badge = "hot"
-----------------------------------------------------------------------------
(* Properties of the grouped sessions *)

Indices(s) == 1..Len(s)

\* the grouped sessions whose interaction list holds the row
SessionsHolding(row) ==
    {g \in Indices(groupedSessions) :
        \E k \in Indices(groupedSessions[g].interactions) :
            groupedSessions[g].interactions[k] = row}

\* each fetched interaction lies in exactly one grouped session, that of its
\* session_id, and a session counts the interactions of its session_id
EachInteractionInOneSession ==
    /\ \A i \in Indices(interactions) :
          /\ Cardinality(SessionsHolding(interactions[i])) = 1
          /\ \A g \in SessionsHolding(interactions[i]) :
                groupedSessions[g].session_id = interactions[i].session_id
    /\ \A g \in Indices(groupedSessions) :
          /\ groupedSessions[g].interaction_count =
                Cardinality({i \in Indices(interactions) :
                    interactions[i].session_id = groupedSessions[g].session_id})
          /\ Len(groupedSessions[g].interactions) =
                groupedSessions[g].interaction_count

\* C10: each interaction is contributed to exactly one grouped session, the
\* one of its session_id, and every grouped session has
\* started_at <= last_activity and an interaction_count equal to the number
\* of interactions with its session_id
C10_GroupedSessionsConsistent ==
    /\ EachInteractionInOneSession
    /\ \A g \in Indices(groupedSessions) :
          groupedSessions[g].started_at <= groupedSessions[g].last_activity

\* the same ordering, at the millisecond precision the tab parses stamps with
StartedBeforeLastActivityInMillis ==
    /\ EachInteractionInOneSession
    /\ \A g \in Indices(groupedSessions) :
          getTime(groupedSessions[g].started_at)
             <= getTime(groupedSessions[g].last_activity)

TwoSessionsGrouped ==
    /\ Len(groupedSessions) = 2
    /\ Len(interactions) = 3

\* the fetched interactions of a session that carry metadata
WithMetadata(session_id) ==
    {i \in Indices(interactions) :
        /\ interactions[i].session_id = session_id
        /\ interactions[i].metadata # NoMetadata}

\* C11: the conversation history and the collected data of a grouped session
\* are those of an interaction with the greatest created_at among the
\* session's interactions with metadata, whatever newer interactions without
\* metadata there are; a session without any has an empty history and no
\* collected data
C11_LatestMetadataWins ==
    \A g \in Indices(groupedSessions) :
        LET session == groupedSessions[g]
            having  == WithMetadata(session.session_id)
        IN  IF having = {}
            THEN /\ session.conversation_history = <<>>
                 /\ session.collected_data = NoCollectedData
            ELSE \E i \in having :
                    /\ \A j \in having :
                          interactions[j].created_at <= interactions[i].created_at
                    /\ session.conversation_history =
                          interactions[i].metadata[1].conversation_history
                    /\ session.collected_data =
                          interactions[i].metadata[1].collected_data

\* three interactions at T1 < T2 < T3, only the last with metadata, whose
\* history has four turns: the grouped history has four
C11_Witness ==
    \E g \in Indices(groupedSessions) :
        LET session == groupedSessions[g]
            rows    == session.interactions
        IN  /\ session.interaction_count = 3
            /\ \E a, b, c \in Indices(rows) :
                  /\ rows[a].created_at < rows[b].created_at
                  /\ rows[b].created_at < rows[c].created_at
                  /\ rows[a].metadata = NoMetadata
                  /\ rows[b].metadata = NoMetadata
                  /\ rows[c].metadata = <<ConversationOfFourTurns>>
            /\ Len(session.conversation_history) = 4

\* grouping the fetched list again yields the grouped sessions on display
RegroupingIdempotent ==
    groupedSessions = GroupSessions(interactions)

\* C12: grouping the same interaction list twice yields identical grouped
\* session lists, and the list is ordered by last_activity descending
C12_RegroupingIdempotentAndOrdered ==
    /\ RegroupingIdempotent
    /\ \A g, h \in Indices(groupedSessions) :
          g < h => groupedSessions[g].last_activity
                      >= groupedSessions[h].last_activity

\* the same ordering, at the millisecond precision the tab parses stamps with
OrderedByLastActivityInMillis ==
    /\ RegroupingIdempotent
    /\ \A g, h \in Indices(groupedSessions) :
          g < h => getTime(groupedSessions[g].last_activity)
                      >= getTime(groupedSessions[h].last_activity)

\* the grouped sessions none of whose interactions carries metadata
WithoutMetadata ==
    {g \in Indices(groupedSessions) :
        WithMetadata(groupedSessions[g].session_id) = {}}

\* C24: a session in which no interaction carries metadata is grouped all
\* the same, with empty collected data, and the message list shown for it is
\* the user message then the assistant message of each interaction, null
\* fields skipped, the interactions in ascending order of created_at
C24_FlattenedWithoutMetadata ==
    /\ \A i \in Indices(interactions) :
          \E g \in Indices(groupedSessions) :
              groupedSessions[g].session_id = interactions[i].session_id
    /\ \A g \in WithoutMetadata :
          LET session == groupedSessions[g]
              rows    == session.interactions
          IN  /\ session.collected_data = NoCollectedData
              /\ MessageList(session) = Bubbles(rows)
              /\ \A a, b \in Indices(rows) :
                    a < b => rows[a].created_at <= rows[b].created_at

\* the same, with the order taken at the millisecond precision the tab
\* parses stamps with
FlattenedInMillisOrder ==
    \A g \in WithoutMetadata :
        LET session == groupedSessions[g]
            rows    == session.interactions
        IN  /\ session.collected_data = NoCollectedData
            /\ MessageList(session) = Bubbles(rows)
            /\ \A a, b \in Indices(rows) :
                  a < b => getTime(rows[a].created_at)
                              <= getTime(rows[b].created_at)

\* two turns of one millisecond shown in reverse: the later answer first
LaterTurnShownFirst ==
    \E g \in WithoutMetadata :
        LET session == groupedSessions[g]
        IN  /\ session.interaction_count = 2
            /\ session.interactions[1].created_at
                  > session.interactions[2].created_at
            /\ MessageList(session) =
                  << [role |-> "assistant", content |-> "anything else?"],
                     [role |-> "user", content |-> "hi"],
                     [role |-> "assistant", content |-> "hello"] >>

\* the rows of a grouped session whose user message is not null
WithUserMessage(session) ==
    {i \in Indices(session.interactions) :
        session.interactions[i].user_message # NULL}

\* the entries of the embedded history with role 'user'
UserEntries(session) ==
    {k \in Indices(session.conversation_history) :
        session.conversation_history[k].role = "user"}

\* C25: first_message of a session group is the user message of the
\* chronologically first interaction whose user message is not null; with
\* none, the content of the first entry of the embedded history with role
\* 'user'; with none either, null
C25_FirstMessage ==
    \A g \in Indices(groupedSessions) :
        LET session == groupedSessions[g]
            rows    == session.interactions
            history == session.conversation_history
        IN  IF WithUserMessage(session) # {}
            THEN \E i \in WithUserMessage(session) :
                    /\ \A j \in WithUserMessage(session) :
                          rows[i].created_at <= rows[j].created_at
                    /\ session.first_message = rows[i].user_message
            ELSE IF UserEntries(session) # {}
            THEN \E k \in UserEntries(session) :
                    /\ \A m \in UserEntries(session) : k <= m
                    /\ session.first_message = history[k].content
            ELSE session.first_message = NULL

\* the rows of a grouped session whose user message is not empty
WithUserText(session) ==
    {i \in Indices(session.interactions) :
        ~Falsy(session.interactions[i].user_message)}

\* the same chain over the user messages that are not empty, the first
\* taken at the millisecond precision the tab parses stamps with
FirstMessageInMillis ==
    \A g \in Indices(groupedSessions) :
        LET session == groupedSessions[g]
            rows    == session.interactions
            history == session.conversation_history
        IN  IF WithUserText(session) # {}
            THEN \E i \in WithUserText(session) :
                    /\ \A j \in WithUserText(session) :
                          getTime(rows[i].created_at)
                             <= getTime(rows[j].created_at)
                    /\ session.first_message = rows[i].user_message
            ELSE IF UserEntries(session) # {}
            THEN \E k \in UserEntries(session) :
                    /\ \A m \in UserEntries(session) : k <= m
                    /\ session.first_message = history[k].content
            ELSE session.first_message = NULL

\* the user message of the later of two turns of one millisecond is shown as
\* the first message
LaterMessageShownAsFirst ==
    \E g \in Indices(groupedSessions) :
        LET session == groupedSessions[g]
        IN  \E i, j \in WithUserText(session) :
               /\ session.interactions[i].created_at
                     < session.interactions[j].created_at
               /\ session.interactions[i].user_message
                     # session.interactions[j].user_message
               /\ session.first_message = session.interactions[j].user_message

\* an empty user message is passed over for the embedded history
EmptyMessagePassedOver ==
    \E g \in Indices(groupedSessions) :
        LET session == groupedSessions[g]
        IN  /\ session.interaction_count = 1
            /\ session.interactions[1].user_message = ""
            /\ session.first_message = "I am Dana"

\* every listing of the rows, in any order
Listings(rows) ==
    LET n == Cardinality(rows)
    IN  {s \in [1..n -> rows] : \A i, j \in 1..n : i # j => s[i] # s[j]}

\* what the list shows of each session, in the order of the list
Shown(sessions) ==
    [g \in Indices(sessions) |->
        [session_id           |-> sessions[g].session_id,
         lead_id              |-> sessions[g].lead_id,
         first_message        |-> sessions[g].first_message,
         conversation_history |-> sessions[g].conversation_history,
         collected_data       |-> sessions[g].collected_data]]

\* the fetched list holds the rows of the table
FetchedAll ==
    /\ Len(interactions) = Cardinality(chat_interactions)
    /\ \A row \in chat_interactions :
          \E i \in Indices(interactions) : interactions[i] = row

\* C30: the grouped session list depends only on the set of interactions:
\* every listing of the same rows, equal creation stamps included, groups
\* into the same sessions in the same order, with the same lead_id,
\* first_message, conversation_history and collected_data
C30_OrderIndependent ==
    FetchedAll =>
        \A list \in Listings(chat_interactions) :
            Shown(GroupSessions(list)) = Shown(groupedSessions)

\* no two rows of the table fall into the same millisecond
DistinctMillis ==
    \A a, b \in chat_interactions :
        a # b => getTime(a.created_at) # getTime(b.created_at)

\* the same, for tables whose rows all differ in their millisecond
OrderIndependentWithDistinctMillis ==
    (FetchedAll /\ DistinctMillis) =>
        \A list \in Listings(chat_interactions) :
            Shown(GroupSessions(list)) = Shown(groupedSessions)

\* two rows of one session carry the same stamp and different user messages,
\* and the first message shown is that of the row listed first
FirstMessageByListing ==
    /\ FetchedAll
    /\ \E i, j \in Indices(interactions) :
          /\ i < j
          /\ interactions[i].session_id = interactions[j].session_id
          /\ interactions[i].created_at = interactions[j].created_at
          /\ ~Falsy(interactions[i].user_message)
          /\ ~Falsy(interactions[j].user_message)
          /\ interactions[i].user_message # interactions[j].user_message
          /\ \E g \in Indices(groupedSessions) :
                /\ groupedSessions[g].session_id = interactions[i].session_id
                /\ groupedSessions[g].first_message
                      = interactions[i].user_message
-----------------------------------------------------------------------------
(* Properties of the CSV export *)

\* a standard CSV reader (RFC 4180): fields separated by commas, records by
\* LF or CRLF, a field in double quotes may hold any character, a quote in
\* it written twice
RECURSIVE ReadCsv(_, _, _, _, _, _)
ReadCsv(text, i, quoted, field, record, records) ==
    IF i > Len(text) THEN Append(records, Append(record, field))
    ELSE LET c    == text[i]
             next == IF i < Len(text) THEN text[i + 1] ELSE ""
         IN  IF quoted
             THEN IF c = "\"" /\ next = "\""
                  THEN ReadCsv(text, i + 2, TRUE, Append(field, "\""), record, records)
                  ELSE IF c = "\""
                  THEN ReadCsv(text, i + 1, FALSE, field, record, records)
                  ELSE ReadCsv(text, i + 1, TRUE, Append(field, c), record, records)
             ELSE IF c = "\"" /\ field = <<>>
                  THEN ReadCsv(text, i + 1, TRUE, field, record, records)
                  ELSE IF c = ","
                  THEN ReadCsv(text, i + 1, FALSE, <<>>, Append(record, field), records)
                  ELSE IF c = "\n"
                  THEN ReadCsv(text, i + 1, FALSE, <<>>, <<>>,
                               Append(records, Append(record, field)))
                  ELSE IF c = "\r" /\ next = "\n"
                  THEN ReadCsv(text, i + 2, FALSE, <<>>, <<>>,
                               Append(records, Append(record, field)))
                  ELSE ReadCsv(text, i + 1, FALSE, Append(field, c), record, records)

ParseCsv(text) == ReadCsv(text, 1, FALSE, <<>>, <<>>, <<>>)

\* the position of a text column in the exported row, 0 when the tab does
\* not export it
ColumnOf(tab, column) ==
    CASE column = "full_name" -> 1
      [] column = "email"     -> 2
      [] column = "phone"     -> 3
      [] column = "website"   -> 4
      [] column = "industry"  -> 5
      [] column = "source"    -> 6
      [] OTHER -> IF tab = "ChatTab" THEN 8 ELSE 0

\* the exported file parses into the header and one record per lead, each
\* with as many fields as the header, each text column equal to the lead's
RoundTrips ==
    LET parsed == ParseCsv(csv.text)
    IN  /\ Len(parsed) = 1 + Len(leadRows)
        /\ \A r \in 1..Len(parsed) : Len(parsed[r]) = Len(parsed[1])
        /\ \A k \in 1..Len(leadRows) :
              \A column \in TextColumns :
                  ColumnOf(csv.tab, column) # 0 =>
                      parsed[k + 1][ColumnOf(csv.tab, column)]
                          = leadRows[k][column]

\* C13: every text field of every exported lead row, escaped and parsed by a
\* standard CSV parser, comes back as the original string, and the row parses
\* into as many fields as the header row
C13_CsvRoundTrips ==
    csv.tab # NULL => RoundTrips

\* the same statement for the export that escapes its fields
ChatTabCsvRoundTrips ==
    csv.tab = "ChatTab" => RoundTrips

ChatTabExportedSpecials ==
    /\ csv.tab = "ChatTab"
    /\ Len(leadRows) = 2
    /\ leadRows[2].full_name = <<",", "\"">>
    /\ leadRows[2].industry = <<"\n", "\r">>
    /\ RoundTrips

-----------------------------------------------------------------------------
(* Properties of the stream reader *)

\* the complete lines of a body, in order: what each newline ends
RECURSIVE LinesOf(_)
LinesOf(text) ==
    IF indexOfNewline(text) = 0 THEN <<>>
    ELSE <<SubSeq(text, 1, indexOfNewline(text) - 1)>>
         \o LinesOf(SubSeq(text, indexOfNewline(text) + 1, Len(text)))

IsSentinel(line) ==
    /\ startsWithData(stripCarriageReturn(line))
    /\ trim(Tail(stripCarriageReturn(line))) = <<"[DONE]">>

\* the concatenation of the content fields of the data lines before the
\* sentinel line
RECURSIVE ContentBeforeSentinel(_)
ContentBeforeSentinel(lines) ==
    IF lines = <<>> \/ IsSentinel(Head(lines)) THEN <<>>
    ELSE (IF startsWithData(stripCarriageReturn(Head(lines)))
          THEN deltaContent(trim(Tail(stripCarriageReturn(Head(lines)))))
          ELSE <<>>)
         \o ContentBeforeSentinel(Tail(lines))

\* the concatenation of the content fields of all data lines
RECURSIVE ContentOfAll(_)
ContentOfAll(lines) ==
    IF lines = <<>> THEN <<>>
    ELSE (IF startsWithData(stripCarriageReturn(Head(lines)))
          THEN deltaContent(trim(Tail(stripCarriageReturn(Head(lines)))))
          ELSE <<>>)
         \o ContentOfAll(Tail(lines))

\* C15: once the body has ended, the assistant text is the in-order
\* concatenation of the content fields of the data lines that precede the
\* sentinel, however the body was chunked; nothing that arrives after the
\* sentinel line is appended
C15_AssembledBeforeSentinel ==
    streamPc = "done" =>
        assistantContent = ContentBeforeSentinel(LinesOf(stream))

\* what the reader guarantees: the text lies between the content before the
\* sentinel and the content of all data lines
AssembledWithinBody ==
    streamPc = "done" =>
        \E n \in 0..Len(ContentOfAll(LinesOf(stream))) :
            /\ assistantContent = SubSeq(ContentOfAll(LinesOf(stream)), 1, n)
            /\ n >= Len(ContentBeforeSentinel(LinesOf(stream)))

\* a body with no sentinel is assembled in full, in every chunking
AssembledWithoutSentinel ==
    (streamPc = "done" /\ \A i \in 1..Len(LinesOf(stream)) :
                              ~IsSentinel(LinesOf(stream)[i]))
        => assistantContent = ContentOfAll(LinesOf(stream))

AppendedAfterSentinel ==
    /\ streamPc = "done"
    /\ stream = <<"data: ", "[DONE]", "\n", "data: ", "{a}", "\n">>
    /\ assistantContent = <<"a">>

StoppedAtSentinel ==
    /\ streamPc = "done"
    /\ stream = <<"data: ", "[DONE]", "\n", "data: ", "{a}", "\n">>
    /\ assistantContent = <<>>

-----------------------------------------------------------------------------
(* Properties of AuthProvider *)

\* C16: while the AuthProvider is mounted, isLoading eventually becomes
\* false even if the session lookup and the role check never resolve, no
\* later than the safety timer; once false it never becomes true again
C16_LoadingEnds ==
    /\ <>(~mounted \/ ~isLoading)
    /\ [](mounted /\ now > SafetyDelay => ~isLoading)
    /\ [][~isLoading => ~isLoading']_vars

\* the safety timer ended the loading while the role check of the initial
\* load was still pending
C16_Witness ==
    /\ mounted
    /\ ~isLoading
    /\ initPc = "roleCheck"
    /\ now = SafetyDelay

\* C28: isAdmin is never true while user is null, however the auth state
\* changes, the sign-out and the completions of earlier role checks
\* interleave
C28_AdminHasUser == isAdmin => user # NULL

\* the role check of a signed-in admin completed after the sign-out, in the
\* mounted provider: isAdmin is true and user is null
AdminWithoutUser ==
    /\ mounted
    /\ isAdmin
    /\ user = NULL
    /\ authSession = NULL
    /\ roleChecks = {}
-----------------------------------------------------------------------------
(* Properties of the enrich function run against the store *)

\* a run of the enrich function ends in this step
Enriches == enrichRun' # enrichRun

\* the row of the run before and after the step
EnrichedRowBefore == CHOOSE l \in leads : l.id = enrichRun'.leadId
EnrichedRowAfter == CHOOSE l \in leads' : l.id = enrichRun'.leadId

\* the store holds the same rows after the step, but for the row of the run
OtherRowsKept ==
    /\ \E l \in leads' : l.id = enrichRun'.leadId
    /\ {l \in leads' : l.id # enrichRun'.leadId}
          = {l \in leads : l.id # enrichRun'.leadId}

\* C26: a run of the enrich function writes to the lead only the extracted
\* fields that are present and not empty (industry, phone, and the summary
\* as notes) and leaves every other attribute, and every other lead, as it
\* was; a run that extracts no field changes nothing and answers
\* success: true
C26_EnrichWritesExtracted ==
    [][Enriches =>
         LET extracted == enrichRun'.extracted
             before    == EnrichedRowBefore
             after     == EnrichedRowAfter
         IN  /\ OtherRowsKept
             /\ after.industry \in {before.industry, extracted.industry}
             /\ after.phone \in {before.phone, extracted.phone}
             /\ after.notes \in {before.notes, extracted.summary}
             /\ after.industry \notin {NULL, ""} \/ after.industry = before.industry
             /\ after.phone \notin {NULL, ""} \/ after.phone = before.phone
             /\ after.notes \notin {NULL, ""} \/ after.notes = before.notes
             /\ \A k \in DOMAIN before \ {"industry", "phone", "notes"} :
                   after[k] = before[k]
             /\ enrichRun'.status = "200" /\ enrichRun'.success = "true" =>
                   /\ extracted.industry \notin {NULL, ""} =>
                         after.industry = extracted.industry
                   /\ extracted.phone \notin {NULL, ""} =>
                         after.phone = extracted.phone
                   /\ extracted.summary \notin {NULL, ""} =>
                         after.notes = extracted.summary
             /\ (/\ enrichRun'.status = "200"
                 /\ enrichRun'.success \in {"true", "none"}
                 /\ extracted.industry \in {NULL, ""}
                 /\ extracted.phone \in {NULL, ""}
                 /\ extracted.summary \in {NULL, ""}) =>
                   /\ leads' = leads
                   /\ enrichRun'.keys = {}
                   /\ enrichRun'.success = "true"]_vars

\* a run extracted an industry and an empty summary: the lead holds the
\* industry, and the notes it had
C26_Witness ==
    /\ enrichRun.success = "true"
    /\ enrichRun.extracted.industry = "Retail"
    /\ enrichRun.extracted.summary = ""
    /\ \E l \in leads :
          /\ l.id = enrichRun.leadId
          /\ l.industry = "Retail"
          /\ l.notes \in {SessionNote(s) : s \in Sessions}

\* a run that extracted nothing answered success: true
EnrichedNothing ==
    /\ enrichRun.success = "true"
    /\ enrichRun.status = "200"
    /\ enrichRun.extracted = NoExtraction
    /\ enrichRun.keys = {}

\* the leads that carry the mark of a session: its placeholder address, or
\* its session note; only the insert of a request of the session writes
\* either
MarkedFor(sessionId) ==
    {l \in leads : \/ l.notes = SessionNote(sessionId)
                   \/ l.email = placeholderEmail([email |-> NULL,
                                                 sessionId |-> sessionId])}

\* C27: chat requests handled one after the other, with enrichment runs
\* between them, leave at most one lead created for a session: a request
\* whose lookups were answered inserts a lead only when the store holds none
\* created for its session, since it finds that lead by email or by session
\* note
C27_OneLeadPerSession ==
    [][\A p \in Procs :
          (Inserts(p) /\ outcome'[p] = "inserted" /\ lookupsOk[p]) =>
              MarkedFor(req[p].sessionId) = {}]_vars

\* a second lead was inserted for the session of a lead whose note an
\* enrichment run replaced
SecondLeadAfterEnrichment ==
    /\ \A p \in Procs : lookupsOk[p] /\ outcome[p] \in {"inserted", "none"}
    /\ \E s \in Sessions :
         \E a, b \in MarkedFor(s) :
            /\ a # b
            /\ a.notes = "Sells shoes"
            /\ b.notes = SessionNote(s)
-----------------------------------------------------------------------------
(* Properties of the leads tab *)

\* C29: every selected lead id belongs to a lead displayed under the active
\* filter, so a bulk archive, restore or delete acts only on leads the
\* operator can see
C29_SelectionDisplayed == selectedLeads \subseteq Displayed

\* the selection holds a lead that another session archived: the list no
\* longer shows it and the bulk buttons still count it
SelectedLeadNotDisplayed ==
    /\ mutation = NoMutation
    /\ ~leadsStale
    /\ sourceFilter = "all"
    /\ \E l \in leadsData : l.archived /\ l.id \in selectedLeads
====
